---- MODULE Spec2Model ----
(***************************************************************************)
(* Verification model of the command-line tools of the replication        *)
(* template (src/tools).  Every tool is an independent process, so every  *)
(* tool has its own variables, its own actions and its own specification; *)
(* the variables of the other tools stay at their initial values.         *)
(*                                                                         *)
(*   SpecZenodo    download_zenodo_draft.py  (main, save_checksums)        *)
(*   SpecSpinner   download_file and Spinner of download_worldbank.py and  *)
(*                 download_zenodo_draft.py                                *)
(*   SpecSivacor   download_sivacor.py                                     *)
(*   SpecDataverse download_dv.py                                          *)
(*   SpecBoxList   list_box_files.py  (list_files)                         *)
(*   SpecManifests compare_manifests.py  (parse_manifest, create_summary)  *)
(*   SpecPrivate   download_openicpsr-private.py                           *)
(*   SpecPublic    download_openicpsr-public.py                            *)
(*   SpecWorldbank download_worldbank.py  (parse_input, main)              *)
(*   SpecDryRun    a run of download_zenodo_draft.py or of                 *)
(*                 download_worldbank.py                                   *)
(*   SpecBoxPrivate  download_box_private.py  (download_folder)            *)
(***************************************************************************)
EXTENDS Integers, Sequences, FiniteSets, TLC

\* ---- download_zenodo_draft.py ----
VARIABLES
  z_pc,         \* position of main()
  z_dry,        \* args.dry_run
  z_sel,        \* selected_files: [given |-> BOOLEAN, nums |-> set of numbers]
  z_outdir,     \* TRUE when output_dir exists
  z_local,      \* files under output_dir: filename -> content, or Absent
  z_local0,     \* the same before the run started (history)
  z_meta,       \* files_metadata
  z_next,       \* index of the next entry of files_metadata to download
  z_requested,  \* filenames a download request was issued for
  z_failed,     \* failed_downloads
  z_skipped,    \* skipped_files
  z_manifest,   \* generated/manifest.*.{md5,sha256}: set of lines, or NoFile
  z_git,        \* TRUE once git add/commit were run
  z_exit        \* exit status of the process, -1 while it runs

zvars == <<z_pc, z_dry, z_sel, z_outdir, z_local, z_local0, z_meta, z_next,
           z_requested, z_failed, z_skipped, z_manifest, z_git, z_exit>>

\* ---- Spinner and download_file (download_worldbank.py, download_zenodo_draft.py) ----
VARIABLES
  sp_script,    \* which script runs: "zenodo" or "worldbank"
  sp_ci,        \* os.getenv("CI") is set
  sp_pc,        \* position of the main thread
  sp_left,      \* files the main loop still has to download
  sp_written,   \* chunks written to the current file
  sp_threads,   \* the Spinner objects created so far, with their threads
  sp_main,      \* "running", "finished" (return or sys.exit) or "crashed" (uncaught exception)
  sp_exited     \* the process has exited

spvars == <<sp_script, sp_ci, sp_pc, sp_left, sp_written, sp_threads, sp_main, sp_exited>>

\* ---- download_sivacor.py ----
VARIABLES
  sv_pc,        \* position of main()
  sv_folder,    \* names of the entries of the target folder
  sv_pre,       \* non-ZIP files of the folder when handle_zip_files was called (history)
  sv_zip,       \* names of the members of the downloaded ZIP archive
  sv_git,       \* git commands run so far
  sv_done,      \* steps of main() that returned (history)
  sv_cli,       \* exit status of the sivacor CLI, -1 before it ran
  sv_exit       \* exit status, -1 while the process runs

svvars == <<sv_pc, sv_folder, sv_pre, sv_zip, sv_git, sv_done, sv_cli, sv_exit>>

\* ---- download_dv.py ----
VARIABLES
  dv_pc,         \* position of the script
  dv_existed,    \* output_dir was a directory before the run (history)
  dv_isdir,      \* output_dir is a directory
  dv_files,      \* names of the entries of output_dir
  dv_members,    \* names of the members of the ZIP the server sends
  dv_unzip,      \* the script's variable unzip
  dv_downloaded, \* the ZIP was written completely
  dv_extracted,  \* zip_ref.extractall(output) was run
  dv_git,        \* git add/commit were run
  dv_exit        \* exit status, -1 while the process runs

dvvars == <<dv_pc, dv_existed, dv_isdir, dv_files, dv_members, dv_unzip,
            dv_downloaded, dv_extracted, dv_git, dv_exit>>

\* ---- list_box_files.py ----
VARIABLES
  bx_tree,      \* the Box folders: folder id -> sequence of items
  bx_stack,     \* the active calls of list_files, outermost first; each holds its
                \* open file object: mode, buffered text, offset of its descriptor
  bx_call,      \* the folder list_files is being called for, or "none"
  bx_out,       \* content of the output file, a sequence of characters
  bx_error,     \* an API call raised
  bx_done       \* the outermost list_files has returned

bxvars == <<bx_tree, bx_stack, bx_call, bx_out, bx_error, bx_done>>

\* ---- compare_manifests.py ----
VARIABLES
  cm_pc,        \* "start" or "done"
  cm_m1,        \* lines of the first manifest file
  cm_m2,        \* lines of the second manifest file
  cm_summary    \* the dictionary create_summary returns

cmvars == <<cm_pc, cm_m1, cm_m2, cm_summary>>

\* ---- download_openicpsr-private.py ----
VARIABLES
  pr_pc,          \* position of the script
  pr_ci,          \* os.getenv("CI")
  pr_given,       \* the project ID as given: sys.argv[1], else config["openicpsr"]
  pr_pid,         \* pid
  pr_savepath,    \* savepath
  pr_password,    \* mypassword
  pr_requests,    \* the HTTP requests sent, in order
  pr_zip,         \* the file savepath/filename
  pr_fs,          \* the directories ./<pid> and <other path>/<pid>
  pr_fs0,         \* those directories when the script started
  pr_extracted,   \* z.extractall was called
  pr_git,         \* the git commands run
  pr_exit         \* exit status, Running until the process has exited

prvars == <<pr_pc, pr_ci, pr_given, pr_pid, pr_savepath, pr_password, pr_requests,
            pr_zip, pr_fs, pr_fs0, pr_extracted, pr_git, pr_exit>>

\* ---- download_openicpsr-public.py ----
VARIABLES
  pb_pc,          \* position of the script
  pb_pid,         \* pid
  pb_version,     \* version
  pb_login,       \* mylogin
  pb_password,    \* mypassword
  pb_requests,    \* the HTTP requests sent, in order, with the status of the answer
  pb_resp,        \* resp
  pb_left,        \* download URLs still to try
  pb_file,        \* the file written
  pb_exit         \* exit status, Running until the process has exited

pbvars == <<pb_pc, pb_pid, pb_version, pb_login, pb_password, pb_requests, pb_resp,
            pb_left, pb_file, pb_exit>>

\* ---- download_worldbank.py ----
VARIABLES
  wb_pc,          \* position of main()
  wb_input,       \* args.doi_or_id
  wb_dry,         \* args.dry_run
  wb_type,        \* input_type
  wb_identifier,  \* identifier
  wb_dir,         \* the files of <output>/wb-<identifier>, or no directory
  wb_dir0,        \* that directory when the script started
  wb_requests,    \* the HTTP requests sent, in order
  wb_ids,         \* len(download_ids)
  wb_i,           \* index of the download ID being processed
  wb_failed,      \* failed_downloads (indices)
  wb_extracted,   \* unzip_file extracted an archive
  wb_exit         \* exit status, Running until the process has exited

wbvars == <<wb_pc, wb_input, wb_dry, wb_type, wb_identifier, wb_dir, wb_dir0, wb_requests,
            wb_ids, wb_i, wb_failed, wb_extracted, wb_exit>>

\* ---- download_box_private.py ----
VARIABLES
  bp_pc,            \* position of main()
  bp_remote,        \* the items of the Box folder (a subfolder holds its own items)
  bp_stack,         \* the calls of download_folder in progress: [dir, items, i]
  bp_local,         \* size of the local file at each target path, or Absent
  bp_local0,        \* the same when the script started (history)
  bp_opened,        \* target paths opened for writing
  bp_downloaded,    \* target paths whose download_to returned
  bp_skipped,       \* target paths logged as 'Skipping existing file'
  bp_output_files,  \* output_files
  bp_total,         \* total_download_size
  bp_error,         \* download_folder logged an exception
  bp_exit           \* exit status, Running until the process has exited

bpvars == <<bp_pc, bp_remote, bp_stack, bp_local, bp_local0, bp_opened, bp_downloaded, bp_skipped, bp_output_files, bp_total, bp_error, bp_exit>>

vars == <<zvars, spvars, svvars, dvvars, bxvars, cmvars, prvars, pbvars, wbvars, bpvars>>
nonZ == <<spvars, svvars, dvvars, bxvars, cmvars, prvars, pbvars, wbvars, bpvars>>
nonSp == <<zvars, svvars, dvvars, bxvars, cmvars, prvars, pbvars, wbvars, bpvars>>
nonSv == <<zvars, spvars, dvvars, bxvars, cmvars, prvars, pbvars, wbvars, bpvars>>
nonDv == <<zvars, spvars, svvars, bxvars, cmvars, prvars, pbvars, wbvars, bpvars>>
nonBx == <<zvars, spvars, svvars, dvvars, cmvars, prvars, pbvars, wbvars, bpvars>>
nonCm == <<zvars, spvars, svvars, dvvars, bxvars, prvars, pbvars, wbvars, bpvars>>
nonPr == <<zvars, spvars, svvars, dvvars, bxvars, cmvars, pbvars, wbvars, bpvars>>
nonPb == <<zvars, spvars, svvars, dvvars, bxvars, cmvars, prvars, wbvars, bpvars>>
nonWb == <<zvars, spvars, svvars, dvvars, bxvars, cmvars, prvars, pbvars, bpvars>>
nonBp == <<zvars, spvars, svvars, dvvars, bxvars, cmvars, prvars, pbvars, wbvars>>

\* ---------------------------------------------------------------------
\* Bounds
MaxFiles == 2      \* most files a deposit has
MaxDownloads == 2  \* most files the main loop downloads
MaxChunks == 2     \* most chunks of a response body
MaxLines == 2      \* most lines of a manifest file
MaxPidLen == 2     \* most characters of a project ID
MaxParts == 3      \* most parts of an input of download_worldbank

\* ---------------------------------------------------------------------
\* Values shared by the tools
Absent == "absent"
NoFile == {<<"no file">>}
Running == -1

SeqRange(s) == {s[i] : i \in 1..Len(s)}

\* Python's `needle in hay` on strings, as sequences of characters
Contains(hay, needle) ==
  \E i \in 0..(Len(hay) - Len(needle)) :
     \A k \in 1..Len(needle) : hay[i + k] = needle[k]

\* =====================================================================
\* download_zenodo_draft.py
\* =====================================================================

Contents == {"c1", "c2"}

\* the i-th filename of a deposit; Zenodo keeps the filenames of a deposit unique
RECURSIVE Bs(_)
Bs(n) == IF n = 0 THEN <<>> ELSE <<"b">> \o Bs(n - 1)
NameOf(i) == IF i = 1 THEN <<"a", "b">> ELSE IF i = 2 THEN <<"a">> ELSE Bs(i - 2)
ZNames == {NameOf(i) : i \in 1..MaxFiles}

\* hashlib: the algorithms hashlib.new() knows (of those used here)
HashlibAlgs == {"md5", "sha256", "sha1"}

\* hexdigest() of a content under an algorithm: lower-case hex, one value per
\* (algorithm, content)
HexDigest(algorithm, content) ==
  CASE algorithm = "md5"    /\ content = "c1" -> "m1"
    [] algorithm = "md5"    /\ content = "c2" -> "m2"
    [] algorithm = "sha256" /\ content = "c1" -> "s1"
    [] algorithm = "sha256" /\ content = "c2" -> "s2"
    [] algorithm = "sha1"   /\ content = "c1" -> "t1"
    [] OTHER -> "t2"

\* str.lower() on the hex strings and algorithm names that occur
StrLower(s) ==
  CASE s = "M1" -> "m1"
    [] s = "SHA-256" -> "sha-256"
    [] OTHER -> s

\* the checksum strings Zenodo may report for a file whose content is c1;
\* colon: the string contains ':', text before it is alg, after it hash
NoChecksum == [present |-> FALSE, colon |-> FALSE, alg |-> "", hash |-> ""]
ChecksumChoices ==
  { NoChecksum,
    [present |-> TRUE, colon |-> FALSE, alg |-> "",        hash |-> "m1"],
    [present |-> TRUE, colon |-> TRUE,  alg |-> "md5",     hash |-> "M1"],
    [present |-> TRUE, colon |-> TRUE,  alg |-> "sha256",  hash |-> "s1"],
    [present |-> TRUE, colon |-> TRUE,  alg |-> "SHA-256", hash |-> "s1"],
    [present |-> TRUE, colon |-> TRUE,  alg |-> "sha1",    hash |-> "t1"],
    [present |-> TRUE, colon |-> TRUE,  alg |-> "crc32",   hash |-> "m1"] }

\* calculate_checksum: hashlib.new raises for an unknown algorithm
CalculateChecksum(content, algorithm) ==
  IF algorithm \in HashlibAlgs
    THEN [ok |-> TRUE, hex |-> HexDigest(algorithm, content)]
    ELSE [ok |-> FALSE, hex |-> ""]

\* mutant of FileExistsWithChecksum: the checksum is never looked at
FileExistsOnly(content, expected_checksum) == content # Absent

\* file_exists_with_checksum(filepath, expected_checksum), content being what
\* is at filepath (Absent when nothing is)
FileExistsWithChecksum(content, expected_checksum) ==
  IF content = Absent THEN FALSE
  ELSE IF ~expected_checksum.present THEN TRUE
  ELSE LET lowered   == StrLower(expected_checksum.alg)
           algorithm == IF expected_checksum.colon
                          THEN (IF lowered \in {"sha-256", "sha256"} THEN "sha256" ELSE lowered)
                          ELSE "md5"
           actual    == CalculateChecksum(content, algorithm)
       IN  IF actual.ok
             THEN StrLower(actual.hex) = StrLower(expected_checksum.hash)
             ELSE FALSE

\* a manifest line f"{hash}  ./{rel_path}"
ManifestLine(hash, rel_path) == <<hash, " ", " ", ".", "/">> \o rel_path
DotSlash(rel_path) == <<".", "/">> \o rel_path
AnyLineHas(lines, rel_path) ==
  \E i \in 1..Len(lines) : Contains(lines[i], DotSlash(rel_path))

\* save_checksums, loop body, first half: the checksum Zenodo provided
AppendRemote(acc, file_info) ==
  LET c   == file_info.checksum
      rel == file_info.filename
  IN  IF ~c.present THEN acc
      ELSE IF c.colon
        THEN (IF StrLower(c.alg) = "md5"
                THEN [acc EXCEPT !.md5 = Append(@, ManifestLine(c.hash, rel))]
              ELSE IF StrLower(c.alg) \in {"sha256", "sha-256"}
                THEN [acc EXCEPT !.sha256 = Append(@, ManifestLine(c.hash, rel))]
              ELSE acc)
        ELSE [acc EXCEPT !.md5 = Append(@, ManifestLine(c.hash, rel))]

\* mutant of AppendLocal: the local digests are always written
AppendLocalAlways(acc, file_info, content) ==
  IF content = Absent THEN acc
  ELSE [md5    |-> Append(acc.md5, ManifestLine(HexDigest("md5", content), file_info.filename)),
        sha256 |-> Append(acc.sha256, ManifestLine(HexDigest("sha256", content), file_info.filename))]

\* save_checksums, loop body, second half: local digests where no line has the path
AppendLocal(acc, file_info, content) ==
  IF content = Absent THEN acc
  ELSE LET rel  == file_info.filename
           acc1 == IF ~AnyLineHas(acc.sha256, rel)
                     THEN [acc EXCEPT !.sha256 =
                             Append(@, ManifestLine(HexDigest("sha256", content), rel))]
                     ELSE acc
       IN  IF ~AnyLineHas(acc1.md5, rel)
             THEN [acc1 EXCEPT !.md5 =
                     Append(@, ManifestLine(HexDigest("md5", content), rel))]
             ELSE acc1

RECURSIVE ChecksumLoop(_, _, _, _)
ChecksumLoop(files_metadata, local, i, acc) ==
  IF i > Len(files_metadata) THEN acc
  ELSE LET fi == files_metadata[i]
       IN  ChecksumLoop(files_metadata, local, i + 1,
             AppendLocal(AppendRemote(acc, fi), fi, local[fi.filename]))

\* save_checksums: what the two manifest files hold afterwards; a manifest
\* without lines is not written
SaveChecksums(files_metadata, local, old) ==
  LET acc == ChecksumLoop(files_metadata, local, 1, [md5 |-> <<>>, sha256 |-> <<>>])
  IN  [md5    |-> IF acc.md5 # <<>> THEN SeqRange(acc.md5) ELSE old.md5,
       sha256 |-> IF acc.sha256 # <<>> THEN SeqRange(acc.sha256) ELSE old.sha256]

\* the listing loop of main: files_metadata of the selected files
RECURSIVE ListFiles(_, _, _, _)
ListFiles(files_info, sel, local, i) ==
  IF i > Len(files_info) THEN <<>>
  ELSE IF sel.given /\ i \notin sel.nums
    THEN ListFiles(files_info, sel, local, i + 1)
    ELSE << [filename    |-> files_info[i].filename,
             checksum    |-> files_info[i].checksum,
             file_exists |-> FileExistsWithChecksum(local[files_info[i].filename],
                                                    files_info[i].checksum),
             file_number |-> i] >>
         \o ListFiles(files_info, sel, local, i + 1)

\* the deposits the API may describe: n files with unique names
Deposits ==
  UNION { { [i \in 1..n |-> [filename |-> NameOf(i), checksum |-> cs[i]]] :
              cs \in [1..n -> ChecksumChoices] } : n \in 0..MaxFiles }

ZInit ==
  /\ z_pc = "start"
  /\ z_dry \in BOOLEAN
  /\ z_sel \in {[given |-> FALSE, nums |-> {}], [given |-> TRUE, nums |-> {2}]}
  /\ z_outdir \in BOOLEAN
  /\ z_local \in [ZNames -> Contents \cup {Absent}]
  /\ (~z_outdir => \A f \in ZNames : z_local[f] = Absent)
  /\ z_local0 = z_local
  /\ z_meta = <<>>
  /\ z_next = 1
  /\ z_requested = {}
  /\ z_failed = <<>>
  /\ z_skipped = <<>>
  /\ z_manifest = [md5 |-> NoFile, sha256 |-> NoFile]
  /\ z_git = FALSE
  /\ z_exit = Running

\* main, lines 341-372: the access token, the output directory
ZStart ==
  /\ z_pc = "start"
  /\ \E token \in BOOLEAN :
       IF ~token
         THEN /\ z_pc' = "exited"
              /\ z_exit' = 1
              /\ UNCHANGED z_outdir
         ELSE /\ z_pc' = "fetch"
              /\ z_outdir' = (z_outdir \/ ~z_dry)
              /\ UNCHANGED z_exit
  /\ UNCHANGED nonZ
  /\ UNCHANGED <<z_dry, z_sel, z_local, z_local0, z_meta, z_next, z_requested,
                 z_failed, z_skipped, z_manifest, z_git>>

\* the listing without the return of the dry run (lines 433-439)
ZListFilesThenDownload ==
  /\ z_pc = "fetch"
  /\ \E status \in {200, 401}, files_info \in Deposits :
       IF status # 200
         THEN /\ z_pc' = "exited"
              /\ z_exit' = 1
              /\ UNCHANGED z_meta
         ELSE IF files_info = <<>>
           THEN /\ z_pc' = "exited"
                /\ z_exit' = 0
                /\ UNCHANGED z_meta
           ELSE /\ z_meta' = ListFiles(files_info, z_sel, z_local, 1)
                /\ z_pc' = "download" /\ UNCHANGED z_exit
  /\ UNCHANGED nonZ
  /\ UNCHANGED <<z_dry, z_sel, z_outdir, z_local, z_local0, z_next, z_requested,
                 z_failed, z_skipped, z_manifest, z_git>>

\* main, lines 374-439: the metadata request, the listing loop, the dry run
ZListFiles ==
  /\ z_pc = "fetch"
  /\ \E status \in {200, 401}, files_info \in Deposits :
       IF status # 200
         THEN /\ z_pc' = "exited"
              /\ z_exit' = 1
              /\ UNCHANGED z_meta
         ELSE IF files_info = <<>>
           THEN /\ z_pc' = "exited"
                /\ z_exit' = 0
                /\ UNCHANGED z_meta
           ELSE /\ z_meta' = ListFiles(files_info, z_sel, z_local, 1)
                /\ IF z_dry
                     THEN z_pc' = "exited" /\ z_exit' = 0
                     ELSE z_pc' = "download" /\ UNCHANGED z_exit
  /\ UNCHANGED nonZ
  /\ UNCHANGED <<z_dry, z_sel, z_outdir, z_local, z_local0, z_next, z_requested,
                 z_failed, z_skipped, z_manifest, z_git>>

\* main, lines 447-451: an entry whose file exists with the right checksum
ZSkip ==
  /\ z_pc = "download"
  /\ z_next <= Len(z_meta)
  /\ z_meta[z_next].file_exists
  /\ z_skipped' = Append(z_skipped, z_meta[z_next].filename)
  /\ z_next' = z_next + 1
  /\ UNCHANGED nonZ
  /\ UNCHANGED <<z_pc, z_dry, z_sel, z_outdir, z_local, z_local0, z_meta,
                 z_requested, z_failed, z_manifest, z_git, z_exit>>

\* main, lines 453-459, with download_file: the request is issued; it succeeds,
\* fails with a RequestException (before or while the body is written), or the
\* local file cannot be written (OSError, which nothing catches)
ZDownload ==
  /\ z_pc = "download"
  /\ z_next <= Len(z_meta)
  /\ ~z_meta[z_next].file_exists
  /\ LET f == z_meta[z_next].filename IN
     /\ z_requested' = z_requested \cup {f}
     /\ \E outcome \in {"ok", "http_error", "stream_error", "os_error"} :
          CASE outcome = "ok" ->
                 /\ z_local' = [z_local EXCEPT ![f] = "c1"]
                 /\ z_next' = z_next + 1
                 /\ UNCHANGED <<z_failed, z_pc, z_exit>>
            [] outcome = "http_error" ->
                 /\ z_failed' = Append(z_failed, f)
                 /\ z_next' = z_next + 1
                 /\ UNCHANGED <<z_local, z_pc, z_exit>>
            [] outcome = "stream_error" ->
                 /\ z_local' = [z_local EXCEPT ![f] = "c2"]
                 /\ z_failed' = Append(z_failed, f)
                 /\ z_next' = z_next + 1
                 /\ UNCHANGED <<z_pc, z_exit>>
            [] OTHER ->
                 /\ z_pc' = "exited"
                 /\ z_exit' = 1
                 /\ UNCHANGED <<z_local, z_failed, z_next>>
  /\ UNCHANGED nonZ
  /\ UNCHANGED <<z_dry, z_sel, z_outdir, z_local0, z_meta, z_skipped,
                 z_manifest, z_git>>

\* main, lines 461-463: save_checksums
ZSaveChecksums ==
  /\ z_pc = "download"
  /\ z_next > Len(z_meta)
  /\ z_manifest' = IF z_meta # <<>>
                     THEN SaveChecksums(z_meta, z_local, z_manifest)
                     ELSE z_manifest
  /\ z_pc' = "summary"
  /\ UNCHANGED nonZ
  /\ UNCHANGED <<z_dry, z_sel, z_outdir, z_local, z_local0, z_meta, z_next,
                 z_requested, z_failed, z_skipped, z_git, z_exit>>

\* main, lines 465-489: the summary, exit status 1 after a failed download,
\* git add and commit in CI
ZFinish ==
  /\ z_pc = "summary"
  /\ z_pc' = "exited"
  /\ IF z_failed # <<>>
       THEN z_exit' = 1 /\ UNCHANGED z_git
       ELSE /\ z_exit' = 0
            /\ \E ci \in BOOLEAN : z_git' = ci
  /\ UNCHANGED nonZ
  /\ UNCHANGED <<z_dry, z_sel, z_outdir, z_local, z_local0, z_meta, z_next,
                 z_requested, z_failed, z_skipped, z_manifest>>

ZNext == ZStart \/ ZListFiles \/ ZSkip \/ ZDownload \/ ZSaveChecksums \/ ZFinish


\* ---------------------------------------------------------------------
\* Claims about download_zenodo_draft.py

\* the algorithm a checksum string names: md5 when it names none
ZNamedAlg(c) ==
  IF ~c.colon THEN "md5"
  ELSE CASE c.alg \in {"sha256", "SHA-256"} -> "sha256"
         [] OTHER -> c.alg
\* the file at the target path before the run has the digest Zenodo reports
\* (hex digits compared by value, whatever their letter case)
ZLocalMatched(m) ==
  /\ z_local0[m.filename] # Absent
  /\ \E a \in HashlibAlgs :
       /\ a = ZNamedAlg(m.checksum)
       /\ StrLower(HexDigest(a, z_local0[m.filename])) = StrLower(m.checksum.hash)
\* the download loop of a real (not dry) run went through all selected files
ZLoopDone == ~z_dry /\ z_meta # <<>> /\ z_next > Len(z_meta)

\* C1: for every selected file with a checksum reported by Zenodo, a download
\* request is issued only if no local file with the reported digest existed,
\* and once the download loop is through, the file was skipped (no request)
\* if and only if such a local file existed before the run.
C1_ResumeByChecksum ==
  \A i \in 1..Len(z_meta) :
    LET m == z_meta[i] IN
    m.checksum.present =>
      /\ (m.filename \in z_requested => ~ZLocalMatched(m))
      /\ (ZLoopDone => (m.filename \notin z_requested <=> ZLocalMatched(m)))

\* C1 witness: after the loop one file with a checksum was skipped and another,
\* whose local copy had a different digest, was requested again
C1_Witness ==
  /\ ZLoopDone
  /\ \E i, j \in 1..Len(z_meta) :
       /\ z_meta[i].checksum.present /\ z_meta[j].checksum.present
       /\ z_meta[i].filename \notin z_requested
       /\ z_meta[j].filename \in z_requested
       /\ z_local0[z_meta[j].filename] = "c2"

ZSaved == ZLoopDone /\ z_pc \in {"summary", "exited"}
ZLinePath(line) == SubSeq(line, 6, Len(line))
ZIsMd5(c) == c.present /\ (~c.colon \/ c.alg \in {"md5", "MD5"})
ZIsSha256(c) == c.present /\ c.colon /\ c.alg \in {"sha256", "sha-256", "SHA256", "SHA-256"}

\* C2: after save_checksums, for every selected file with an md5 (or bare)
\* checksum H the md5 manifest holds the line 'H  ./<path>' with H as reported,
\* and for a sha256 checksum the sha256 manifest does, whatever the local file
\* holds; that manifest has no other (locally computed) line for the file.
C2_ManifestKeepsZenodoChecksum ==
  ZSaved =>
    \A i \in 1..Len(z_meta) :
      LET m == z_meta[i]
          own == ManifestLine(m.checksum.hash, m.filename)
      IN  /\ ZIsMd5(m.checksum) =>
                /\ own \in z_manifest.md5
                /\ \A l \in z_manifest.md5 : ZLinePath(l) = m.filename => l = own
          /\ ZIsSha256(m.checksum) =>
                /\ own \in z_manifest.sha256
                /\ \A l \in z_manifest.sha256 : ZLinePath(l) = m.filename => l = own

\* C2 witness: manifests saved for a file with an md5 checksum whose local
\* content has another digest and a file with a sha256 checksum; the md5
\* manifest also holds a locally computed line
C2_Witness ==
  /\ ZSaved
  /\ \E i, j \in 1..Len(z_meta) :
       /\ ZIsMd5(z_meta[i].checksum) /\ z_local[z_meta[i].filename] = "c2"
       /\ ZIsSha256(z_meta[j].checksum) /\ z_local[z_meta[j].filename] # Absent
       /\ ManifestLine(HexDigest("md5", z_local[z_meta[j].filename]), z_meta[j].filename)
            \in z_manifest.md5

\* =====================================================================
\* Spinner and download_file (download_worldbank.py, download_zenodo_draft.py;
\* the two files hold the same code, only the caller differs)
\* =====================================================================

NumSpinnerChars == 8

\* a Spinner whose start() does not look at CI
NewSpinnerWithThread(ci) ==
  [running |-> TRUE, thread |-> TRUE, alive |-> TRUE, idx |-> 0]
\* Spinner.__init__ followed by Spinner.start: no thread in CI
NewSpinner(ci) ==
  [running |-> ~ci, thread |-> ~ci, alive |-> ~ci, idx |-> 0]

SpInit ==
  /\ sp_script \in {"zenodo", "worldbank"}
  /\ sp_ci \in BOOLEAN
  /\ sp_pc = "loop"
  /\ sp_left \in 1..MaxDownloads
  /\ sp_written = 0
  /\ sp_threads = <<>>
  /\ sp_main = "running"
  /\ sp_exited = FALSE

\* the caller's loop: the next download_file call, or the end of main
SpLoop ==
  /\ sp_pc = "loop"
  /\ IF sp_left > 0
       THEN sp_pc' = "request" /\ UNCHANGED sp_main
       ELSE sp_pc' = "main_end" /\ sp_main' = "finished"
  /\ UNCHANGED <<sp_script, sp_ci, sp_left, sp_written, sp_threads, sp_exited>>
  /\ UNCHANGED nonSp

\* download_file: requests.get and raise_for_status; a RequestException here
\* is caught with no spinner in locals(), download_file returns False
SpRequest ==
  /\ sp_pc = "request"
  /\ \E ok \in BOOLEAN :
       IF ok THEN sp_pc' = "start" /\ UNCHANGED sp_left
             ELSE sp_pc' = "loop" /\ sp_left' = sp_left - 1
  /\ UNCHANGED <<sp_script, sp_ci, sp_written, sp_threads, sp_main, sp_exited>>
  /\ UNCHANGED nonSp

\* download_file: spinner = Spinner(...); spinner.start()
SpStart ==
  /\ sp_pc = "start"
  /\ sp_threads' = Append(sp_threads, NewSpinner(sp_ci))
  /\ sp_written' = 0
  /\ sp_pc' = "open"
  /\ UNCHANGED <<sp_script, sp_ci, sp_left, sp_main, sp_exited>>
  /\ UNCHANGED nonSp

\* an OSError leaves download_file through no handler (only RequestException
\* is caught): download_zenodo_draft's main does not catch it either, the
\* main thread ends with a traceback; download_worldbank's main loop catches
\* Exception and goes on with the next file
SpOSError ==
  IF sp_script = "zenodo"
    THEN sp_pc' = "main_end" /\ sp_main' = "crashed" /\ UNCHANGED sp_left
    ELSE sp_pc' = "loop" /\ sp_left' = sp_left - 1 /\ UNCHANGED sp_main

\* download_file: filepath.parent.mkdir and open(filepath, 'wb')
SpOpen ==
  /\ sp_pc = "open"
  /\ \E ok \in BOOLEAN :
       IF ok THEN sp_pc' = "write" /\ UNCHANGED <<sp_left, sp_main>>
             ELSE SpOSError
  /\ UNCHANGED <<sp_script, sp_ci, sp_written, sp_threads, sp_exited>>
  /\ UNCHANGED nonSp

\* download_file: one round of the chunk loop (f.write, update_progress), the
\* end of the body, a RequestException of iter_content, or an OSError of f.write
SpWrite ==
  /\ sp_pc = "write"
  /\ \E outcome \in {"chunk", "end", "request_exception", "os_error"} :
       CASE outcome = "chunk" ->
              /\ sp_written < MaxChunks
              /\ sp_written' = sp_written + 1
              /\ UNCHANGED <<sp_pc, sp_left, sp_main>>
         [] outcome \in {"end", "request_exception"} ->
              /\ sp_pc' = "stop"
              /\ UNCHANGED <<sp_written, sp_left, sp_main>>
         [] OTHER ->
              /\ SpOSError
              /\ UNCHANGED sp_written
  /\ UNCHANGED <<sp_script, sp_ci, sp_threads, sp_exited>>
  /\ UNCHANGED nonSp

\* Spinner.stop, first statement: self.running = False
SpStop ==
  /\ sp_pc = "stop"
  /\ sp_threads' = [sp_threads EXCEPT ![Len(sp_threads)].running = FALSE]
  /\ sp_pc' = "join"
  /\ UNCHANGED <<sp_script, sp_ci, sp_left, sp_written, sp_main, sp_exited>>
  /\ UNCHANGED nonSp

\* Spinner.stop, self.thread.join() when there is a thread; download_file returns
SpJoin ==
  /\ sp_pc = "join"
  /\ LET s == sp_threads[Len(sp_threads)] IN s.thread => ~s.alive
  /\ sp_pc' = "loop"
  /\ sp_left' = sp_left - 1
  /\ UNCHANGED <<sp_script, sp_ci, sp_written, sp_threads, sp_main, sp_exited>>
  /\ UNCHANGED nonSp

\* Spinner.spin, one round of `while self.running`
SpSpin ==
  /\ ~sp_exited
  /\ \E t \in 1..Len(sp_threads) :
       /\ sp_threads[t].alive
       /\ sp_threads[t].running
       /\ sp_threads' = [sp_threads EXCEPT ![t].idx = (@ + 1) % NumSpinnerChars]
  /\ UNCHANGED <<sp_script, sp_ci, sp_pc, sp_left, sp_written, sp_main, sp_exited>>
  /\ UNCHANGED nonSp

\* Spinner.spin returns once self.running is False: the thread ends
SpSpinEnd ==
  /\ \E t \in 1..Len(sp_threads) :
       /\ sp_threads[t].alive
       /\ ~sp_threads[t].running
       /\ sp_threads' = [sp_threads EXCEPT ![t].alive = FALSE]
  /\ UNCHANGED <<sp_script, sp_ci, sp_pc, sp_left, sp_written, sp_main, sp_exited>>
  /\ UNCHANGED nonSp

\* the interpreter exits when the main thread has ended and no (non-daemon)
\* thread is alive
SpExit ==
  /\ sp_pc = "main_end"
  /\ ~sp_exited
  /\ \A t \in 1..Len(sp_threads) : ~sp_threads[t].alive
  /\ sp_exited' = TRUE
  /\ UNCHANGED <<sp_script, sp_ci, sp_pc, sp_left, sp_written, sp_threads, sp_main>>
  /\ UNCHANGED nonSp

SpNext == SpLoop \/ SpRequest \/ SpStart \/ SpOpen \/ SpWrite \/ SpStop \/ SpJoin
            \/ SpSpin \/ SpSpinEnd \/ SpExit

\* ---------------------------------------------------------------------
\* Claims about Spinner and download_file

\* C5: on every path of download_file every Spinner thread that was started
\* is stopped and joined: when the main thread has ended no spinner is
\* running and no spinner thread is alive (so the process can exit).
C5_SpinnersStoppedAtEnd ==
  sp_pc = "main_end" =>
    \A t \in 1..Len(sp_threads) : ~sp_threads[t].running /\ ~sp_threads[t].alive

\* the spinner threads that have not ended
SpAlive == { t \in 1..Len(sp_threads) : sp_threads[t].alive }
\* the main thread is in download_file between spinner.start() and spinner.stop()
SpStreaming == sp_pc \in {"open", "write", "stop"}

\* C16 (as stated): there is a single thread of control: no Spinner thread
\* is ever alive, so self.running is never written by the main thread
\* (Spinner.stop) while a Spinner thread reads it.
C16_SingleThread ==
  /\ SpAlive = {}
  /\ ~(sp_pc = "stop" /\ \E t \in SpAlive : sp_threads[t].running)

\* C16 (amended): in CI there is a single thread of control; outside CI a
\* Spinner thread runs beside the main thread all the while download_file
\* streams a file (from spinner.start() to the join in spinner.stop()), and a
\* Spinner thread never ends before the main thread has set its running flag
\* to False.
C16_SpinnerThreadOutsideCI ==
  /\ sp_ci => \A t \in 1..Len(sp_threads) : ~sp_threads[t].thread /\ ~sp_threads[t].alive
  /\ (~sp_ci /\ SpStreaming) =>
        /\ sp_threads # <<>>
        /\ sp_threads[Len(sp_threads)].alive
        /\ sp_pc # "stop" => sp_threads[Len(sp_threads)].running
  /\ \A t \in 1..Len(sp_threads) :
        /\ sp_threads[t].alive => sp_threads[t].thread
        /\ (sp_threads[t].thread /\ sp_threads[t].running) => sp_threads[t].alive
  /\ sp_pc = "join" => ~sp_threads[Len(sp_threads)].running

\* outside CI the Spinner thread has run while the main thread was writing
\* chunks, and the main thread is about to write the flag the thread reads
C16_Witness ==
  /\ ~sp_ci /\ sp_pc = "stop" /\ sp_written > 0
  /\ sp_threads[Len(sp_threads)].alive
  /\ sp_threads[Len(sp_threads)].running
  /\ sp_threads[Len(sp_threads)].idx > 0

\* =====================================================================
\* download_sivacor.py
\* =====================================================================

\* file names as <<stem, extension>>
SvArtifacts == {<<"replication", "zip">>, <<"stdout", "log">>, <<"run", "tro">>}
SvZipMembers == {<<"stdout", "log">>, <<"main", "do">>}
SvOldFiles == {<<"old", "do">>}
EndsWithZip(f) == f[2] = "zip"

SvInit ==
  /\ sv_pc = "jira_case"
  /\ sv_folder \in SUBSET SvOldFiles
  /\ sv_pre = {}
  /\ sv_zip \in SUBSET SvZipMembers
  /\ sv_git = <<>>
  /\ sv_done = {}
  /\ sv_cli = Running
  /\ sv_exit = Running

\* main step 1, get_jira_case: argument, directory name or config.yml, else exit 1
SvJiraCase ==
  /\ sv_pc = "jira_case"
  /\ \E found \in BOOLEAN :
       IF found THEN /\ sv_pc' = "sivacor_id"
                     /\ sv_done' = sv_done \cup {"jira_case"}
                     /\ UNCHANGED sv_exit
                ELSE sv_pc' = "exited" /\ sv_exit' = 1 /\ UNCHANGED sv_done
  /\ UNCHANGED <<sv_folder, sv_pre, sv_zip, sv_git, sv_cli>>
  /\ UNCHANGED nonSv

\* main step 2, get_sivacor_id: an empty answer of jira_get_info.py is exit 1
SvSivacorId ==
  /\ sv_pc = "sivacor_id"
  /\ \E populated \in BOOLEAN :
       IF populated THEN /\ sv_pc' = "target_folder"
                         /\ sv_done' = sv_done \cup {"sivacor_id"}
                         /\ UNCHANGED sv_exit
                    ELSE sv_pc' = "exited" /\ sv_exit' = 1 /\ UNCHANGED sv_done
  /\ UNCHANGED <<sv_folder, sv_pre, sv_zip, sv_git, sv_cli>>
  /\ UNCHANGED nonSv

\* main step 3, get_target_folder: config.yml missing or without a repository key is exit 1
SvTargetFolder ==
  /\ sv_pc = "target_folder"
  /\ \E config \in {"ok", "no_file", "no_key"} :
       IF config = "ok" THEN /\ sv_pc' = "download"
                             /\ sv_done' = sv_done \cup {"target_folder"}
                             /\ UNCHANGED sv_exit
                        ELSE sv_pc' = "exited" /\ sv_exit' = 1 /\ UNCHANGED sv_done
  /\ UNCHANGED <<sv_folder, sv_pre, sv_zip, sv_git, sv_cli>>
  /\ UNCHANGED nonSv

\* subprocess.run without check=True: the exit status of the CLI is not looked at
SvCliAlwaysOk(returncode) == TRUE
\* subprocess.run(..., check=True), line 197: CalledProcessError unless the
\* exit status is 0
SvCliOk(returncode) == returncode = 0

\* main step 4, download_sivacor_artifacts: the sivacor CLI writes the
\* artifacts into the target folder; a non-zero exit status is exit 1
SvDownload ==
  /\ sv_pc = "download"
  /\ \E arts \in SUBSET SvArtifacts, returncode \in {0, 1} :
       /\ sv_folder' = sv_folder \cup arts
       /\ sv_cli' = returncode
       /\ IF SvCliOk(returncode)
            THEN /\ sv_pc' = "handle_zip"
                 /\ sv_done' = sv_done \cup {"download"}
                 /\ UNCHANGED sv_exit
            ELSE sv_pc' = "exited" /\ sv_exit' = 1 /\ UNCHANGED sv_done
  /\ UNCHANGED <<sv_pre, sv_zip, sv_git>>
  /\ UNCHANGED nonSv

\* main step 5, handle_zip_files: without a ZIP nothing changes; with one, the
\* ZIP is moved beside the folder, every entry of the folder is removed and the
\* ZIP is extracted and deleted; a ZIP that cannot be extracted is moved back
\* into the (emptied) folder and the exit status is 1
SvHandleZip ==
  /\ sv_pc = "handle_zip"
  /\ sv_pre' = {f \in sv_folder : ~EndsWithZip(f)}
  /\ LET zip_files == {f \in sv_folder : EndsWithZip(f)} IN
     IF zip_files = {}
       THEN /\ sv_pc' = "git"
            /\ sv_done' = sv_done \cup {"handle_zip"}
            /\ UNCHANGED <<sv_folder, sv_exit>>
       ELSE \E zip_file \in zip_files, readable \in BOOLEAN :
              IF readable
                THEN /\ sv_folder' = sv_zip
                     /\ sv_pc' = "git"
                     /\ sv_done' = sv_done \cup {"handle_zip"}
                     /\ UNCHANGED sv_exit
                ELSE /\ sv_folder' = {zip_file}
                     /\ sv_pc' = "exited"
                     /\ sv_exit' = 1
                     /\ UNCHANGED sv_done
  /\ UNCHANGED <<sv_zip, sv_git, sv_cli>>
  /\ UNCHANGED nonSv

\* the git commands of git_commit_changes, in order; every one but rev-parse
\* and diff is run with check=True
SvGitCommands == <<"rev-parse", "checkout", "add", "diff", "commit">>

\* main step 6, git_commit_changes: checkout of the branch, git add, and a
\* commit when something is staged; a failing checkout, add or commit raises
\* CalledProcessError, which nothing catches (exit status 1)
SvGit ==
  /\ sv_pc = "git"
  /\ \E outcome \in {"committed", "nothing_staged", "checkout_failed", "add_failed",
                     "commit_failed"} :
       /\ sv_git' = sv_git \o
            SubSeq(SvGitCommands, 1,
                   CASE outcome = "checkout_failed" -> 2
                     [] outcome = "add_failed" -> 3
                     [] outcome = "nothing_staged" -> 4
                     [] OTHER -> 5)
       /\ sv_exit' = IF outcome \in {"committed", "nothing_staged"} THEN 0 ELSE 1
       /\ sv_done' = IF outcome \in {"committed", "nothing_staged"}
                       THEN sv_done \cup {"git"} ELSE sv_done
  /\ sv_pc' = "exited"
  /\ UNCHANGED <<sv_folder, sv_pre, sv_zip, sv_cli>>
  /\ UNCHANGED nonSv

SvNext == SvJiraCase \/ SvSivacorId \/ SvTargetFolder \/ SvDownload \/ SvHandleZip \/ SvGit

\* the steps that come before the git step
SvStepsBeforeGit == {"jira_case", "sivacor_id", "target_folder", "download", "handle_zip"}

\* ---------------------------------------------------------------------
\* Claims about download_sivacor.py

\* C14: git commands are run only after the Jira case was determined, a
\* SIVACOR ID was obtained, the target folder was read, the sivacor CLI ended
\* with exit status 0 and handle_zip_files returned; a run in which one of
\* these steps failed has ended with status 1 and has run no git command.
C14_GitOnlyAtTheEnd ==
  /\ sv_git # <<>> => (SvStepsBeforeGit \subseteq sv_done /\ sv_cli = 0)
  /\ sv_pc # "git" \/ (SvStepsBeforeGit \subseteq sv_done /\ sv_cli = 0)
  /\ (sv_pc = "exited" /\ ~(SvStepsBeforeGit \subseteq sv_done /\ sv_cli = 0)) =>
        (sv_exit = 1 /\ sv_git = <<>>)

\* all steps went well and the artifacts were committed
C14_Witness ==
  /\ sv_pc = "exited" /\ sv_exit = 0
  /\ sv_git = SvGitCommands
  /\ sv_cli = 0 /\ sv_done = SvStepsBeforeGit \cup {"git"}
\* the sivacor CLI failed and the run ended before git
C14_WitnessCliFailure ==
  /\ sv_pc = "exited" /\ sv_exit = 1 /\ sv_cli = 1 /\ sv_git = <<>>

\* C3: handle_zip_files keeps the other downloaded artifacts: every non-ZIP
\* file that was in the target folder when handle_zip_files was called is
\* still there when it has returned.
C3_KeepsOtherArtifacts ==
  sv_pc = "git" => sv_pre \subseteq sv_folder

\* =====================================================================
\* download_dv.py
\* =====================================================================

DvZipName == "ABC123.zip"
DvOldFiles == {"old.dta", DvZipName}
DvZipMembers == {"data.csv", "code.do"}

DvInit ==
  /\ dv_pc = "main"
  /\ dv_existed \in BOOLEAN
  /\ dv_isdir = dv_existed
  /\ dv_files \in (IF dv_existed THEN SUBSET DvOldFiles ELSE {{}})
  /\ dv_members \in SUBSET DvZipMembers
  /\ dv_unzip = FALSE
  /\ dv_downloaded = FALSE
  /\ dv_extracted = FALSE
  /\ dv_git = FALSE
  /\ dv_exit = Running

\* __main__, lines 111-124: the output directory is created when it is missing
DvMain ==
  /\ dv_pc = "main"
  /\ IF ~dv_isdir
       THEN dv_isdir' = TRUE /\ dv_unzip' = TRUE
       ELSE dv_unzip' = FALSE /\ UNCHANGED dv_isdir
  /\ dv_pc' = "metadata"
  /\ UNCHANGED <<dv_existed, dv_files, dv_members, dv_downloaded, dv_extracted,
                 dv_git, dv_exit>>
  /\ UNCHANGED nonDv

\* download_zip, lines 80-88: the metadata request; an answer without
\* info['data']['id'] raises outside the try block
DvMetadata ==
  /\ dv_pc = "metadata"
  /\ \E found \in BOOLEAN :
       IF found THEN dv_pc' = "download" /\ UNCHANGED dv_exit
                ELSE dv_pc' = "exited" /\ dv_exit' = 1
  /\ UNCHANGED <<dv_existed, dv_isdir, dv_files, dv_members, dv_unzip, dv_downloaded,
                 dv_extracted, dv_git>>
  /\ UNCHANGED nonDv

\* download_zip, lines 90-95: the ZIP is streamed into output/<id>.zip; an
\* exception is printed and download_zip returns
DvDownload ==
  /\ dv_pc = "download"
  /\ dv_files' = dv_files \cup {DvZipName}
  /\ \E ok \in BOOLEAN :
       IF ok THEN dv_pc' = "unzip" /\ dv_downloaded' = TRUE
             ELSE dv_pc' = "git" /\ UNCHANGED dv_downloaded
  /\ UNCHANGED <<dv_existed, dv_isdir, dv_members, dv_unzip, dv_extracted, dv_git, dv_exit>>
  /\ UNCHANGED nonDv

\* download_zip, lines 97-103: the ZIP is extracted when output is not a directory
DvUnzip ==
  /\ dv_pc = "unzip"
  /\ IF ~dv_isdir
       THEN /\ dv_extracted' = TRUE
            /\ dv_files' = dv_files \cup dv_members
       ELSE UNCHANGED <<dv_extracted, dv_files>>
  /\ dv_pc' = "git"
  /\ UNCHANGED <<dv_existed, dv_isdir, dv_members, dv_unzip, dv_downloaded, dv_git, dv_exit>>
  /\ UNCHANGED nonDv

\* __main__, lines 128-135: git add and commit in CI
DvGit ==
  /\ dv_pc = "git"
  /\ \E ci \in BOOLEAN : dv_git' = ci
  /\ dv_pc' = "exited"
  /\ dv_exit' = 0
  /\ UNCHANGED <<dv_existed, dv_isdir, dv_files, dv_members, dv_unzip, dv_downloaded,
                 dv_extracted>>
  /\ UNCHANGED nonDv

DvNext == DvMain \/ DvMetadata \/ DvDownload \/ DvUnzip \/ DvGit

\* ---------------------------------------------------------------------
\* Claims about download_dv.py

\* C4: when the output directory did not exist before the run, a successful
\* download is followed by the extraction of the archive into it; when it
\* existed, the ZIP is downloaded and the extraction is skipped.
C4_ExtractsIntoNewDirectory ==
  (dv_downloaded /\ dv_pc \in {"git", "exited"}) =>
     /\ (~dv_existed => dv_extracted /\ dv_members \subseteq dv_files)
     /\ (dv_existed => ~dv_extracted)

\* =====================================================================
\* list_box_files.py
\* =====================================================================

BxFile(id) == [type |-> "file", id |-> id]
BxFolder(id) == [type |-> "folder", id |-> id]

\* all sequences without repetition of elements of S
RECURSIVE Arrangements(_)
Arrangements(S) ==
  {<<>>} \cup UNION { { <<x>> \o r : r \in Arrangements(S \ {x}) } : x \in S }

\* the folder trees: root holds files F1, F2 and folder D1; D1 holds F3 and D2;
\* D2 holds F4; any subset in any order
BxTrees ==
  { [root |-> r, D1 |-> a, D2 |-> b] :
      r \in Arrangements({BxFile("F1"), BxFile("F2"), BxFolder("D1")}),
      a \in Arrangements({BxFile("F3"), BxFolder("D2")}),
      b \in Arrangements({BxFile("F4")}) }

\* the line written for a file, f"sha1:{sha1}  {size}  {name}\n", as its
\* characters <<file, k>>; lines differ in length
BxLineLen(f) == IF f \in {"F1", "F4"} THEN 2 ELSE 1
BxLine(f) == [k \in 1..BxLineLen(f) |-> <<f, k>>]

\* write(2) of data through a descriptor: at the end of the file with O_APPEND
\* (mode 'a'), at the descriptor's own offset otherwise (mode 'w')
BxWrite(out, frame, data) ==
  IF frame.mode = "a" THEN out \o data
  ELSE LET end == frame.off + Len(data)
           n   == IF end > Len(out) THEN end ELSE Len(out)
       IN  [i \in 1..n |-> IF i > frame.off /\ i <= end THEN data[i - frame.off] ELSE out[i]]

\* the buffer of a file object is written out
BxFlushed(frame) == [frame EXCEPT !.buf = <<>>, !.off = @ + Len(frame.buf)]

BxInit ==
  /\ bx_tree \in BxTrees
  /\ bx_stack = <<>>
  /\ bx_call = "root"
  /\ bx_out \in {<<>>, <<<<"stale", 1>>>>}
  /\ bx_error = FALSE
  /\ bx_done = FALSE

BxTop == bx_stack[Len(bx_stack)]
BxPop == SubSeq(bx_stack, 1, Len(bx_stack) - 1)
BxAfterReturn(stack) == stack = <<>>

\* list_files, lines 156-169: folder.get(), get_items(), open(output_file, mode);
\* mode 'w' (depth 0) truncates the file; an API error is caught and logged
BxEnter ==
  /\ bx_call # "none"
  /\ \E ok \in BOOLEAN :
       IF ok
         THEN /\ bx_stack' = Append(bx_stack,
                   [folder |-> bx_call, pos |-> 1, buf |-> <<>>, off |-> 0,
                    mode |-> IF Len(bx_stack) = 0 THEN "w" ELSE "a"])
              /\ bx_out' = IF Len(bx_stack) = 0 THEN <<>> ELSE bx_out
              /\ UNCHANGED <<bx_error, bx_done>>
         ELSE /\ bx_error' = TRUE
              /\ bx_done' = BxAfterReturn(bx_stack)
              /\ UNCHANGED <<bx_stack, bx_out>>
  /\ bx_call' = "none"
  /\ UNCHANGED bx_tree
  /\ UNCHANGED nonBx

\* list_files, lines 173-180: an item of type file; f.write buffers the line;
\* an API error of file.get() leaves the with block (the buffer is written
\* out, the file closed) and is caught by this call
BxItemFile ==
  /\ bx_call = "none" /\ bx_stack # <<>>
  /\ BxTop.pos <= Len(bx_tree[BxTop.folder])
  /\ LET item == bx_tree[BxTop.folder][BxTop.pos] IN
     /\ item.type = "file"
     /\ \E ok \in BOOLEAN :
          IF ok
            THEN /\ bx_stack' = [bx_stack EXCEPT ![Len(bx_stack)].buf = @ \o BxLine(item.id),
                                                 ![Len(bx_stack)].pos = @ + 1]
                 /\ UNCHANGED <<bx_out, bx_error, bx_done>>
            ELSE /\ bx_out' = BxWrite(bx_out, BxTop, BxTop.buf)
                 /\ bx_stack' = BxPop
                 /\ bx_error' = TRUE
                 /\ bx_done' = BxAfterReturn(BxPop)
  /\ UNCHANGED <<bx_tree, bx_call>>
  /\ UNCHANGED nonBx

\* list_files, lines 171-172: an item of type folder, the recursive call
BxItemFolder ==
  /\ bx_call = "none" /\ bx_stack # <<>>
  /\ BxTop.pos <= Len(bx_tree[BxTop.folder])
  /\ LET item == bx_tree[BxTop.folder][BxTop.pos] IN
     /\ item.type = "folder"
     /\ bx_call' = item.id
     /\ bx_stack' = [bx_stack EXCEPT ![Len(bx_stack)].pos = @ + 1]
  /\ UNCHANGED <<bx_tree, bx_out, bx_error, bx_done>>
  /\ UNCHANGED nonBx

\* a full buffer is written out in the middle of the loop (io.BufferedWriter)
BxFlushEarly ==
  /\ bx_call = "none" /\ bx_stack # <<>>
  /\ BxTop.buf # <<>>
  /\ bx_out' = BxWrite(bx_out, BxTop, BxTop.buf)
  /\ bx_stack' = [bx_stack EXCEPT ![Len(bx_stack)] = BxFlushed(BxTop)]
  /\ UNCHANGED <<bx_tree, bx_call, bx_error, bx_done>>
  /\ UNCHANGED nonBx

\* list_files, end of the with block: the buffer is written out, the file
\* closed, the call returns
BxReturn ==
  /\ bx_call = "none" /\ bx_stack # <<>>
  /\ BxTop.pos > Len(bx_tree[BxTop.folder])
  /\ bx_out' = BxWrite(bx_out, BxTop, BxTop.buf)
  /\ bx_stack' = BxPop
  /\ bx_done' = BxAfterReturn(BxPop)
  /\ UNCHANGED <<bx_tree, bx_call, bx_error>>
  /\ UNCHANGED nonBx

BxNext == BxEnter \/ BxItemFile \/ BxItemFolder \/ BxFlushEarly \/ BxReturn

\* ---------------------------------------------------------------------
\* Claims about list_box_files.py

\* the files of the tree below a folder, at any depth
RECURSIVE BxFilesUnder(_)
BxFilesUnder(folder) ==
  UNION { IF bx_tree[folder][i].type = "file"
            THEN {bx_tree[folder][i].id}
            ELSE BxFilesUnder(bx_tree[folder][i].id) : i \in 1..Len(bx_tree[folder]) }
\* the places of the output where the whole line of a file stands
BxLinesOf(f) ==
  { i \in 0..(Len(bx_out) - BxLineLen(f)) :
      \A k \in 1..BxLineLen(f) : bx_out[i + k] = <<f, k>> }

\* C6: when list_files has completed without an API error, the output file
\* holds exactly one line for every file of the folder tree, at any depth,
\* and nothing else.
C6_OneLinePerFile ==
  (bx_done /\ ~bx_error) =>
     \A f \in BxFilesUnder("root") : Cardinality(BxLinesOf(f)) = 1

\* =====================================================================
\* compare_manifests.py
\* =====================================================================

\* a line of a manifest: an entry "checksum [*]dir/base", a comment or blank
\* line, or a line of one word; a filename is <<dir, base>>
CmLines ==
  { [kind |-> "entry", checksum |-> c, star |-> st, filename |-> <<d, b>>] :
      c \in {"h1", "h2"}, st \in BOOLEAN, d \in {"", "sub"}, b \in {"x", "y"} }
  \cup { [kind |-> k, checksum |-> "", star |-> FALSE, filename |-> <<"", "">>] :
           k \in {"comment", "malformed"} }
CmManifests == UNION { [1..n -> CmLines] : n \in 0..MaxLines }

\* Path(filename).name
CmBasename(filename) == filename[2]

\* parse_manifest: the lines that are kept, in order
CmEntries(lines) == SelectSeq(lines, LAMBDA l : l.kind = "entry")
\* parse_manifest: file_to_checksum (a later line replaces an earlier one),
\* basename_to_files and checksum_to_files (lists, in the order of the lines)
ParseManifest(lines) ==
  LET es == CmEntries(lines)
      names == {es[i].filename : i \in 1..Len(es)}
      last(f) == CHOOSE i \in 1..Len(es) :
                   es[i].filename = f /\ \A j \in (i + 1)..Len(es) : es[j].filename # f
      namesOf(sel(_)) == LET kept == SelectSeq(es, sel)
                         IN  [i \in 1..Len(kept) |-> kept[i].filename]
  IN  [file_to_checksum  |-> [f \in names |-> es[last(f)].checksum],
       basename_to_files |-> [b \in {CmBasename(f) : f \in names} |->
                                 namesOf(LAMBDA e : CmBasename(e.filename) = b)],
       checksum_to_files |-> [c \in {es[i].checksum : i \in 1..Len(es)} |->
                                 namesOf(LAMBDA e : e.checksum = c)]]

\* the elements of a set in some order (iteration over a Python set)
RECURSIVE SetToSeq(_)
SetToSeq(S) == IF S = {} THEN <<>> ELSE LET x == CHOOSE x \in S : TRUE
                                        IN  <<x>> \o SetToSeq(S \ {x})

\* create_summary, lines 79-90: the pairs of files with a common basename
RECURSIVE CmPairs(_, _, _, _, _, _)
CmPairs(p1, p2, basenames, b, i, j) ==
  IF b > Len(basenames) THEN <<>>
  ELSE LET files_in_1 == p1.basename_to_files[basenames[b]]
           files_in_2 == p2.basename_to_files[basenames[b]]
       IN  IF i > Len(files_in_1) THEN CmPairs(p1, p2, basenames, b + 1, 1, 1)
           ELSE IF j > Len(files_in_2) THEN CmPairs(p1, p2, basenames, b, i + 1, 1)
           ELSE << [basename  |-> basenames[b],
                    file1     |-> files_in_1[i],
                    checksum1 |-> p1.file_to_checksum[files_in_1[i]],
                    file2     |-> files_in_2[j],
                    checksum2 |-> p2.file_to_checksum[files_in_2[j]]] >>
                \o CmPairs(p1, p2, basenames, b, i, j + 1)

\* create_summary
CreateSummary(m1, m2) ==
  LET p1 == ParseManifest(m1)
      p2 == ParseManifest(m2)
      common == (DOMAIN p1.basename_to_files) \cap (DOMAIN p2.basename_to_files)
      pairs == CmPairs(p1, p2, SetToSeq(common), 1, 1, 1)
  IN  [files_only_in_1  |-> (DOMAIN p1.file_to_checksum) \ (DOMAIN p2.file_to_checksum),
       files_only_in_2  |-> (DOMAIN p2.file_to_checksum) \ (DOMAIN p1.file_to_checksum),
       common_basenames |-> common,
       common_checksums |-> (DOMAIN p1.checksum_to_files) \cap (DOMAIN p2.checksum_to_files),
       exact_matches    |-> SelectSeq(pairs, LAMBDA p : p.checksum1 = p.checksum2),
       basename_checksum_mismatches |-> SelectSeq(pairs, LAMBDA p : p.checksum1 # p.checksum2)]

CmInit ==
  /\ cm_pc = "start"
  /\ cm_m1 \in CmManifests
  /\ cm_m2 \in CmManifests
  /\ cm_summary = [exact_matches |-> <<>>]

\* compare_manifests / create_summary_file: the summary of the two files
CmCompare ==
  /\ cm_pc = "start"
  /\ cm_summary' = CreateSummary(cm_m1, cm_m2)
  /\ cm_pc' = "done"
  /\ UNCHANGED <<cm_m1, cm_m2>>
  /\ UNCHANGED nonCm

CmNext == CmCompare

\* ---------------------------------------------------------------------
\* Claims about compare_manifests.py

\* the pairs (entry of manifest 1, entry of manifest 2) with the same
\* filename and the same checksum
CmSameRecords ==
  LET e1 == CmEntries(cm_m1)
      e2 == CmEntries(cm_m2)
  IN  { <<i, j>> \in (1..Len(e1)) \X (1..Len(e2)) :
          e1[i].filename = e2[j].filename /\ e1[i].checksum = e2[j].checksum }

\* C7: the exact matches are the complete records (filename + checksum) that
\* match exactly: every counted pair has the same filename in both manifests,
\* and as many pairs are counted as there are pairs of entries with the same
\* filename and the same checksum.
C7_ExactMatchesAreSameRecords ==
  cm_pc = "done" =>
    /\ \A k \in 1..Len(cm_summary.exact_matches) :
         cm_summary.exact_matches[k].file1 = cm_summary.exact_matches[k].file2
    /\ Len(cm_summary.exact_matches) = Cardinality(CmSameRecords)

\* =====================================================================
\* download_openicpsr-private.py
\* =====================================================================

\* characters of a project ID: an ASCII digit, SUPERSCRIPT TWO (U+00B2), a
\* letter and the slash; a string is a sequence of characters
PrChars == {"1", "sup2", "x", "/"}
PrStrings == UNION { [1..n -> PrChars] : n \in 0..MaxPidLen }
\* the value None (no string of characters)
PrNone == <<"None">>
\* os.environ.get("ICPSR_PASS") when the variable is not set
PrUnset == "<unset>"
PrPasswords == {"", "secret"}
\* a directory that does not exist
PrNoDir == {<<"no directory">>}

\* str.rstrip('/')
RECURSIVE RStripSlash(_)
RStripSlash(s) ==
  IF Len(s) > 0 /\ s[Len(s)] = "/" THEN RStripSlash(SubSeq(s, 1, Len(s) - 1)) ELSE s

\* str.isdigit(): the string is not empty and every character has the Unicode
\* property Numeric_Type=Digit or Numeric_Type=Decimal; U+00B2 is such a
\* character ('²'.isdigit() is True) although it is not a decimal digit
IsDigit(s) == Len(s) > 0 /\ \A i \in 1..Len(s) : s[i] \in {"1", "sup2"}

\* config.yml: missing, without the key 'openicpsr', or with a value for it
PrConfigs == {<<"no_file">>, <<"no_key">>} \cup { <<"openicpsr", v>> : v \in PrStrings \cup {PrNone} }
\* sys.argv[1:]: PROJECT ID, path, login
PrArgvs ==
  {<<>>} \cup { <<p>> : p \in PrStrings }
         \cup { <<p, sp>> : p \in PrStrings, sp \in {".", "other"} }
         \cup { <<p, sp, "user">> : p \in PrStrings, sp \in {".", "other"} }

\* the files of a directory are pairs <<name, content>>
PrOldDirs == {PrNoDir, {}, {<<"data.csv", "old">>}}
PrZipMembers == {<<"data.csv", "new">>, <<"code.do", "new">>}
\* ZipFile.extractall: the members written replace files of the same name
PrExtractAll(dir, members) ==
  LET base == IF dir = PrNoDir THEN {} ELSE dir
  IN  members \cup {f \in base : \A m \in members : m[1] # f[1]}


PrInit ==
  /\ pr_pc = "config"
  /\ pr_ci \in BOOLEAN
  /\ pr_given = PrNone
  /\ pr_pid = PrNone
  /\ pr_savepath = "."
  /\ pr_password \in {PrUnset} \cup PrPasswords
  /\ pr_requests = <<>>
  /\ pr_zip = Absent
  /\ pr_fs \in [{".", "other"} -> PrOldDirs]
  /\ pr_fs0 = pr_fs
  /\ pr_extracted = FALSE
  /\ pr_git = <<>>
  /\ pr_exit = Running

\* the process ends with the given status
PrExitWith(status) == pr_pc' = "exited" /\ pr_exit' = status

\* lines 197-204: pid from config.yml; a missing file is reported, a missing
\* key is an uncaught KeyError
PrConfig ==
  /\ pr_pc = "config"
  /\ \E config \in PrConfigs :
       IF config[1] = "no_key"
         THEN PrExitWith(1) /\ UNCHANGED <<pr_pid, pr_given>>
         ELSE /\ pr_pid' = IF config[1] = "no_file" THEN PrNone ELSE config[2]
              /\ pr_given' = pr_pid'
              /\ pr_pc' = "args"
              /\ UNCHANGED pr_exit
  /\ UNCHANGED <<pr_ci, pr_savepath, pr_password, pr_requests, pr_zip, pr_fs, pr_fs0,
                 pr_extracted, pr_git>>
  /\ UNCHANGED nonPr

\* lines 229-248: the command line overrides pid, savepath and the login; with
\* a login the password is read with getpass
PrArgs ==
  /\ pr_pc = "args"
  /\ \E argv \in PrArgvs, typed \in PrPasswords :
       /\ pr_given' = IF Len(argv) >= 1 THEN argv[1] ELSE pr_given
       /\ IF Len(argv) >= 1 /\ ~IsDigit(RStripSlash(argv[1]))
            THEN /\ PrExitWith(1)
                 /\ pr_pid' = RStripSlash(argv[1])
                 /\ UNCHANGED <<pr_savepath, pr_password>>
            ELSE /\ pr_pid' = IF Len(argv) >= 1 THEN RStripSlash(argv[1]) ELSE pr_pid
                 /\ pr_savepath' = IF Len(argv) >= 2 THEN argv[2] ELSE pr_savepath
                 /\ pr_password' = IF Len(argv) >= 3 THEN typed ELSE pr_password
                 /\ pr_pc' = "validate"
                 /\ UNCHANGED pr_exit
  /\ UNCHANGED <<pr_ci, pr_requests, pr_zip, pr_fs, pr_fs0, pr_extracted, pr_git>>
  /\ UNCHANGED nonPr

\* lines 250-272: final validation of the project ID, then of the password
PrValidate ==
  /\ pr_pc = "validate"
  /\ IF pr_pid = PrNone
       THEN PrExitWith(1) /\ UNCHANGED pr_pid
       ELSE LET pid_str == RStripSlash(pr_pid) IN
            IF ~IsDigit(pid_str)
              THEN PrExitWith(1) /\ UNCHANGED pr_pid
              ELSE /\ pr_pid' = pid_str
                   /\ IF pr_password = PrUnset \/ Len(pr_password) = 0
                        THEN PrExitWith(0)
                        ELSE pr_pc' = "system_info" /\ UNCHANGED pr_exit
  /\ UNCHANGED <<pr_ci, pr_given, pr_savepath, pr_password, pr_requests, pr_zip, pr_fs,
                 pr_fs0, pr_extracted, pr_git>>
  /\ UNCHANGED nonPr

\* lines 278-281, get_system_info: the public IP is asked of api.ipify.org;
\* a failure is ignored
PrSystemInfo ==
  /\ pr_pc = "system_info"
  /\ pr_requests' = Append(pr_requests, "ipify")
  /\ pr_pc' = "cookies"
  /\ UNCHANGED <<pr_ci, pr_given, pr_pid, pr_savepath, pr_password, pr_zip, pr_fs, pr_fs0,
                 pr_extracted, pr_git, pr_exit>>
  /\ UNCHANGED nonPr

\* lines 289-325: session cookies, the login page, the login form; a failed
\* request raises (raise_for_status, or no form action found)
PrSession ==
  /\ pr_pc \in {"cookies", "login", "post"}
  /\ pr_requests' = Append(pr_requests, pr_pc)
  /\ \E ok \in BOOLEAN :
       IF ok THEN /\ pr_pc' = CASE pr_pc = "cookies" -> "login"
                                [] pr_pc = "login" -> "post"
                                [] pr_pc = "post" -> "download"
                  /\ UNCHANGED pr_exit
             ELSE PrExitWith(1)
  /\ UNCHANGED <<pr_ci, pr_given, pr_pid, pr_savepath, pr_password, pr_zip, pr_fs, pr_fs0,
                 pr_extracted, pr_git>>
  /\ UNCHANGED nonPr

\* lines 327-393: deposit/downloadZip; a 200 response is written to
\* savepath/filename (a ZIP archive or not, or a part of it when the transfer
\* or the write fails), any other status is quit(2)
PrDownload ==
  /\ pr_pc = "download"
  /\ pr_requests' = Append(pr_requests, "downloadZip")
  /\ \E status_code \in {200, 403}, body \in {"zip", "not_zip", "error"} :
       IF status_code # 200
         THEN PrExitWith(2) /\ UNCHANGED pr_zip
         ELSE IF body = "error"
                THEN PrExitWith(1) /\ pr_zip' = "not_zip"
                ELSE pr_pc' = "extract" /\ pr_zip' = body /\ UNCHANGED pr_exit
  /\ UNCHANGED <<pr_ci, pr_given, pr_pid, pr_savepath, pr_password, pr_fs, pr_fs0,
                 pr_extracted, pr_git>>
  /\ UNCHANGED nonPr

\* os.path.exists(str(pid)): the directory the archive is extracted into
PrExtractDirExists(fs, savepath) == fs["."] # PrNoDir
\* line 404: os.path.exists(f"{savepath}/{pid}")
PrTargetExists(fs, savepath) == fs[savepath] # PrNoDir

\* lines 397-428: the archive is opened (BadZipFile is not caught); with an
\* existing savepath/pid the script quits, else the archive is extracted into
\* ./pid (a failing extraction leaves some of the members and raises)
PrExtract ==
  /\ pr_pc = "extract"
  /\ IF pr_zip # "zip"
       THEN PrExitWith(1) /\ UNCHANGED <<pr_fs, pr_extracted>>
       ELSE IF PrTargetExists(pr_fs, pr_savepath)
              THEN PrExitWith(0) /\ UNCHANGED <<pr_fs, pr_extracted>>
              ELSE /\ pr_extracted' = TRUE
                   /\ \E written \in SUBSET PrZipMembers :
                        /\ pr_fs' = [pr_fs EXCEPT !["."] = PrExtractAll(@, written)]
                        /\ IF written = PrZipMembers
                             THEN pr_pc' = "git" /\ UNCHANGED pr_exit
                             ELSE PrExitWith(1)
  /\ UNCHANGED <<pr_ci, pr_given, pr_pid, pr_savepath, pr_password, pr_requests, pr_zip,
                 pr_fs0, pr_git>>
  /\ UNCHANGED nonPr

\* lines 430-446: git add and git commit of ./pid in CI, then the summary
PrGit ==
  /\ pr_pc = "git"
  /\ pr_git' = IF pr_ci THEN <<"add", "commit">> ELSE <<>>
  /\ PrExitWith(0)
  /\ UNCHANGED <<pr_ci, pr_given, pr_pid, pr_savepath, pr_password, pr_requests, pr_zip,
                 pr_fs, pr_fs0, pr_extracted>>
  /\ UNCHANGED nonPr

PrNext ==
  PrConfig \/ PrArgs \/ PrValidate \/ PrSystemInfo \/ PrSession \/ PrDownload
    \/ PrExtract \/ PrGit

\* ---------------------------------------------------------------------
\* Claims about download_openicpsr-private.py

\* the string is not empty and consists only of decimal digits
OnlyDecimalDigits(s) == Len(s) > 0 /\ \A i \in 1..Len(s) : s[i] = "1"
PrNumericId == pr_given # PrNone /\ OnlyDecimalDigits(RStripSlash(pr_given))

\* C8: a request is sent only if the project ID (first argument, else the
\* 'openicpsr' key of config.yml), without its trailing slashes, consists only
\* of decimal digits and a non-empty password is available; with a non-numeric
\* or missing project ID the process exits with status 1, having sent no
\* request and written no file.
C8_ValidatesBeforeAnyRequest ==
  /\ pr_requests # <<>> => PrNumericId /\ pr_password \in PrPasswords \ {""}
  /\ (pr_pc = "exited" /\ ~PrNumericId) =>
        pr_exit = 1 /\ pr_requests = <<>> /\ pr_zip = Absent /\ pr_fs = pr_fs0

PbSecondArgs == {<<"V", "2">>, <<"v", "2">>, <<"u">>, <<"v", "u">>, <<>>}
PbLogins == {<<"u">>, <<>>}
PbPasswords == {<<"s">>, <<>>}
\* sys.argv[1]: numeric, with a trailing slash, with a letter, empty
PbProjectIds == {<<"1">>, <<"1", "1">>, <<"1", "/">>, <<"x">>, <<>>}
\* sys.argv[1:]
PbArgvs ==
  {<<>>} \cup { <<p>> : p \in PbProjectIds }
         \cup { <<p, a>> : p \in PbProjectIds, a \in PbSecondArgs }
         \cup { <<p, a, l>> : p \in PbProjectIds, a \in PbSecondArgs, l \in PbLogins }

\* str.upper()
StrUpper(s) == [i \in 1..Len(s) |-> IF s[i] = "v" THEN "V" ELSE s[i]]
\* str.startswith('V')
StartsWithV(s) == Len(s) > 0 /\ s[1] = "V"

\* lines 84-85: has_auth
HasAuth(login, password) ==
  /\ password # PrNone /\ Len(password) > 0
  /\ login # PrNone /\ Len(login) > 0

\* no response (resp = None)
PbNoResp == [status_code |-> 0, content |-> "none"]
\* a response: the status and what the headers announce (a file download,
\* an HTML page, something else)
PbResponses ==
  { [status_code |-> 200, content |-> c] : c \in {"file", "html", "other"} }
    \cup { [status_code |-> 404, content |-> "html"] }
\* lines 279-289: the standard download URLs tried after the one found in the page
NumFallbackUrls == 3

PbInit ==
  /\ pb_pc = "args"
  /\ pb_pid = PrNone
  /\ pb_version = PrNone
  /\ pb_login \in {PrNone} \cup PbLogins
  /\ pb_password \in {PrNone} \cup PbPasswords
  /\ pb_requests = <<>>
  /\ pb_resp = PbNoResp
  /\ pb_left = 0
  /\ pb_file = Absent
  /\ pb_exit = Running

PbExitWith(status) == pb_pc' = "exited" /\ pb_exit' = status

\* lines 48-73: PROJECT_ID, then a version (an argument that begins with v or
\* V) and a login, or a login; with a login the password is read with getpass;
\* without PROJECT_ID the usage is printed and the script leaves with exit()
PbArgs ==
  /\ pb_pc = "args"
  /\ \E argv \in PbArgvs, typed \in PbPasswords :
       IF Len(argv) = 0
         THEN PbExitWith(0) /\ UNCHANGED <<pb_pid, pb_version, pb_login, pb_password>>
         ELSE /\ pb_pid' = argv[1]
              /\ pb_pc' = "validate"
              /\ UNCHANGED pb_exit
              /\ IF Len(argv) >= 2
                   THEN IF StartsWithV(StrUpper(argv[2]))
                          THEN /\ pb_version' = StrUpper(argv[2])
                               /\ IF Len(argv) >= 3
                                    THEN pb_login' = argv[3] /\ pb_password' = typed
                                    ELSE UNCHANGED <<pb_login, pb_password>>
                          ELSE /\ pb_login' = argv[2]
                               /\ pb_password' = typed
                               /\ UNCHANGED pb_version
                   ELSE UNCHANGED <<pb_version, pb_login, pb_password>>
  /\ UNCHANGED <<pb_requests, pb_resp, pb_left, pb_file>>
  /\ UNCHANGED nonPb

\* lines 75-91: the project ID must be numeric; credentials are required
\* when no version is given
PbValidate ==
  /\ pb_pc = "validate"
  /\ IF ~IsDigit(pb_pid)
       THEN PbExitWith(1)
       ELSE IF pb_version = PrNone /\ ~HasAuth(pb_login, pb_password)
              THEN PbExitWith(1)
              ELSE /\ pb_pc' = IF HasAuth(pb_login, pb_password) THEN "cookies" ELSE "route"
                   /\ UNCHANGED pb_exit
  /\ UNCHANGED <<pb_pid, pb_version, pb_login, pb_password, pb_requests, pb_resp, pb_left,
                 pb_file>>
  /\ UNCHANGED nonPb

PbRequest(url, status_code) == [url |-> url, status_code |-> status_code]

\* lines 127-190: with credentials, the session cookies, the login page and
\* the login form; a failed request raises
PbAuth ==
  /\ pb_pc \in {"cookies", "login", "post"}
  /\ \E ok \in BOOLEAN :
       /\ pb_requests' = Append(pb_requests, PbRequest(pb_pc, IF ok THEN 200 ELSE 500))
       /\ IF ok THEN /\ pb_pc' = CASE pb_pc = "cookies" -> "login"
                                   [] pb_pc = "login" -> "post"
                                   [] pb_pc = "post" -> "route"
                     /\ UNCHANGED pb_exit
                ELSE PbExitWith(1)
  /\ UNCHANGED <<pb_pid, pb_version, pb_login, pb_password, pb_resp, pb_left, pb_file>>
  /\ UNCHANGED nonPb

\* lines 193-205: the private download is tried when no version is given and
\* credentials are there
PbTryPrivateAnyway(version, has_auth) == has_auth
PbTryPrivate(version, has_auth) == version = PrNone /\ has_auth

\* lines 192-211: the route; a private response with status 200 is saved,
\* any other status goes on with the public project page; a request that
\* raises ends the script
PbRoute ==
  /\ pb_pc = "route"
  /\ IF PbTryPrivate(pb_version, HasAuth(pb_login, pb_password))
       THEN \E raised \in BOOLEAN, r \in PbResponses :
              IF raised
                THEN /\ pb_requests' = Append(pb_requests, PbRequest("downloadZip", 0))
                     /\ PbExitWith(1)
                     /\ UNCHANGED pb_resp
                ELSE /\ pb_requests' =
                          Append(pb_requests, PbRequest("downloadZip", r.status_code))
                     /\ pb_resp' = r
                     /\ pb_pc' = IF r.status_code = 200 THEN "save" ELSE "project"
                     /\ UNCHANGED pb_exit
       ELSE /\ pb_resp' = PbNoResp
            /\ pb_pc' = "project"
            /\ UNCHANGED <<pb_requests, pb_exit>>
  /\ UNCHANGED <<pb_pid, pb_version, pb_login, pb_password, pb_left, pb_file>>
  /\ UNCHANGED nonPb

\* lines 213-291: the project page (of the version, with the page of the
\* project as fallback); the download URLs to try are the one found in the
\* page, if any, and the standard ones
PbProject ==
  /\ pb_pc = "project"
  /\ \E first \in {200, 404}, second \in {200, 404}, found \in BOOLEAN :
       LET page == IF pb_version # PrNone THEN "project_version" ELSE "project"
           reqs1 == Append(pb_requests, PbRequest(page, first))
           reqs2 == IF first # 200 /\ pb_version # PrNone
                      THEN Append(reqs1, PbRequest("project", second)) ELSE reqs1
           failed == first # 200 /\ (pb_version = PrNone \/ second # 200)
       IN  /\ pb_requests' = reqs2
           /\ IF failed
                THEN PbExitWith(1) /\ UNCHANGED <<pb_left, pb_resp>>
                ELSE /\ pb_left' = NumFallbackUrls + (IF found THEN 1 ELSE 0)
                     /\ pb_resp' = PbNoResp
                     /\ pb_pc' = "candidates"
                     /\ UNCHANGED pb_exit
  /\ UNCHANGED <<pb_pid, pb_version, pb_login, pb_password, pb_file>>
  /\ UNCHANGED nonPb

\* lines 292-371: one download URL is tried: the request raises (resp keeps
\* its value), or answers; a file download ends the loop; a terms page with a
\* download link is followed, and a file download there ends the loop as well
PbCandidate ==
  /\ pb_pc = "candidates"
  /\ pb_left > 0
  /\ \E raised \in BOOLEAN, r \in PbResponses, link \in BOOLEAN, actual \in PbResponses :
       LET followed == ~raised /\ r.status_code = 200 /\ r.content = "html" /\ link
           reqs1 == Append(pb_requests,
                           PbRequest("download", IF raised THEN 0 ELSE r.status_code))
           reqs2 == IF followed
                      THEN Append(reqs1, PbRequest("terms_link", actual.status_code))
                      ELSE reqs1
           direct == ~raised /\ r.status_code = 200 /\ r.content = "file"
           viaTerms == followed /\ actual.status_code = 200 /\ actual.content = "file"
       IN  /\ pb_requests' = reqs2
           /\ pb_resp' = IF raised THEN pb_resp ELSE IF viaTerms THEN actual ELSE r
           /\ pb_left' = IF direct \/ viaTerms THEN 0 ELSE pb_left - 1
  /\ UNCHANGED <<pb_pc, pb_pid, pb_version, pb_login, pb_password, pb_file, pb_exit>>
  /\ UNCHANGED nonPb

\* lines 373-385: after the loop, no response or a status other than 200 is a
\* failure, and so is a final response that is HTML
PbCheckResponse ==
  /\ pb_pc = "candidates"
  /\ pb_left = 0
  /\ IF pb_resp = PbNoResp \/ pb_resp.status_code # 200 \/ pb_resp.content = "html"
       THEN PbExitWith(1)
       ELSE pb_pc' = "save" /\ UNCHANGED pb_exit
  /\ UNCHANGED <<pb_pid, pb_version, pb_login, pb_password, pb_requests, pb_resp, pb_left,
                 pb_file>>
  /\ UNCHANGED nonPb

\* lines 390-431: the body of resp is written to the file; an error while
\* reading or writing leaves a part of it
PbSave ==
  /\ pb_pc = "save"
  /\ \E ok \in BOOLEAN :
       IF ok THEN pb_file' = pb_resp.content /\ PbExitWith(0)
             ELSE pb_file' = "partial" /\ PbExitWith(1)
  /\ UNCHANGED <<pb_pid, pb_version, pb_login, pb_password, pb_requests, pb_resp, pb_left>>
  /\ UNCHANGED nonPb

PbNext ==
  PbArgs \/ PbValidate \/ PbAuth \/ PbRoute \/ PbProject \/ PbCandidate
    \/ PbCheckResponse \/ PbSave

\* ---------------------------------------------------------------------
\* Claims about download_openicpsr-public.py

PbAuthUrls == {"cookies", "login", "post"}
PbPublicUrls == {"project_version", "project", "download", "terms_link"}
PbRequested(url) == \E i \in 1..Len(pb_requests) : pb_requests[i].url = url
\* the arguments have been read
PbArgsRead == pb_pc # "args"

\* with a version the private endpoint is never requested, and a run without
\* credentials goes to the project page of the version
PbVersionIsPublic ==
  pb_version # PrNone =>
    /\ ~PbRequested("downloadZip")
    /\ (pb_pc = "exited" /\ IsDigit(pb_pid) /\ ~HasAuth(pb_login, pb_password)) =>
          (pb_requests # <<>> /\ pb_requests[1].url = "project_version")

\* with credentials and no version, the first request after the login is the
\* private one, and every request of the public route comes after a private
\* response that is not 200
PbPrivateFirst ==
  (PbArgsRead /\ pb_version = PrNone /\ HasAuth(pb_login, pb_password)) =>
     \A i \in 1..Len(pb_requests) :
        /\ pb_requests[i].url \in PbPublicUrls =>
              \E j \in 1..(i - 1) : /\ pb_requests[j].url = "downloadZip"
                                    /\ pb_requests[j].status_code # 200
        /\ (pb_requests[i].url \notin PbAuthUrls
              /\ \A j \in 1..(i - 1) : pb_requests[j].url \in PbAuthUrls) =>
              pb_requests[i].url = "downloadZip"

\* C10 (as stated): with no VERSION argument and no complete login/password
\* the script exits with status 1 before any request; with a VERSION it goes
\* on without credentials and never requests deposit/downloadZip; with
\* credentials and no VERSION the private endpoint comes first and the public
\* route only after a response that is not 200.
C10_CredentialsOnlyWithoutVersion ==
  /\ (PbArgsRead /\ pb_version = PrNone /\ ~HasAuth(pb_login, pb_password)) =>
        /\ pb_requests = <<>>
        /\ pb_pc = "exited" => pb_exit = 1
  /\ PbVersionIsPublic
  /\ PbPrivateFirst

\* C10 (amended): the same for the runs that are given a PROJECT_ID; a run
\* without any argument prints the usage and exits with status 0, before any
\* request.
C10_CredentialsOnlyWithoutVersionGivenId ==
  /\ (PbArgsRead /\ pb_pid # PrNone /\ pb_version = PrNone
        /\ ~HasAuth(pb_login, pb_password)) =>
        /\ pb_requests = <<>>
        /\ pb_pc = "exited" => pb_exit = 1
  /\ (PbArgsRead /\ pb_pid = PrNone) =>
        pb_requests = <<>> /\ pb_pc = "exited" /\ pb_exit = 0
  /\ PbVersionIsPublic
  /\ PbPrivateFirst

\* a run with a version and with credentials that logged in, took the public
\* route and saved a file
C10_Witness ==
  /\ pb_pc = "exited" /\ pb_exit = 0
  /\ pb_version # PrNone /\ HasAuth(pb_login, pb_password)
  /\ PbRequested("post") /\ PbRequested("project_version") /\ PbRequested("download")
  /\ pb_file = "file"

\* the script is on the public route and past the loop over the download URLs
PbPublicDone == PbRequested("download") /\ pb_pc \in {"save", "exited"}
\* resp was accepted as a file download by the loop (lines 305-309, 340-346)
PbAccepted == pb_resp.status_code = 200 /\ pb_resp.content = "file"

\* C17: on the public route the response that is saved was accepted as a file
\* download (status 200 and a ZIP, octet-stream or attachment) and is the
\* answer to the URL tried last; when no download URL gave such a response
\* the script exits with status 1 and writes no file.
C17_SavesOnlyAcceptedDownloads ==
  /\ (PbPublicDone /\ (pb_pc = "save" \/ pb_file # Absent)) =>
        /\ PbAccepted
        /\ pb_requests[Len(pb_requests)].status_code = 200
  /\ (PbPublicDone /\ pb_pc = "exited" /\ ~PbAccepted) =>
        (pb_exit = 1 /\ pb_file = Absent)

\* =====================================================================
\* download_worldbank.py
\* =====================================================================

\* strings are sequences of characters
WbDoiOrg == <<"d", "o", "i", ".", "o", "r", "g">>
WbDoiUrl == <<"h", "t", "t", "p", "s", ":", "/", "/", "d", "o", "i", ".", "o", "r", "g", "/">>
WbDoiPrefix == <<"1", "0", ".", "6", "0", "5", "7", "2", "/">>
WbHost ==
  <<"r", "e", "p", "r", "o", "d", "u", "c", "i", "b", "i", "l", "i", "t", "y", ".", "w",
   "o", "r", "l", "d", "b", "a", "n", "k", ".", "o", "r", "g">>
WbCatalogDir == <<"/", "c", "a", "t", "a", "l", "o", "g", "/">>
WbCatalogUrl ==
  <<"h", "t", "t", "p", "s", ":", "/", "/", "r", "e", "p", "r", "o", "d", "u", "c", "i",
   "b", "i", "l", "i", "t", "y", ".", "w", "o", "r", "l", "d", "b", "a", "n", "k", ".",
   "o", "r", "g", "/", "i", "n", "d", "e", "x", ".", "p", "h", "p", "/", "c", "a", "t",
   "a", "l", "o", "g", "/">>
WbSuffix == <<"1", "0", "1", "y", "-", "v", "n", "1", "5">>
WbCatalogId == <<"4", "0", "0">>
\* the parts an input is put together from
\* the line feed character
LF == "LF"
WbParts ==
  {WbDoiUrl, WbDoiPrefix, WbSuffix, WbCatalogUrl, WbCatalogId, <<"/">>, <<"x">>, <<LF>>}
RECURSIVE WbJoin(_)
WbJoin(parts) == IF parts = <<>> THEN <<>> ELSE Head(parts) \o WbJoin(Tail(parts))
WbInputs == { WbJoin(ps) : ps \in UNION { [1..n -> WbParts] : n \in 0..MaxParts } }

\* \d and [a-zA-Z0-9] of the regular expressions
WbDigits == {"0", "1", "2", "3", "4", "5", "6", "7", "8", "9"}
WbLetters ==
  {"a", "b", "c", "d", "e", "f", "g", "h", "i", "j", "k", "l", "m", "n", "o", "p", "q",
   "r", "s", "t", "u", "v", "w", "x", "y", "z", "A", "B", "C", "D", "E", "F", "G", "H",
   "I", "J", "K", "L", "M", "N", "O", "P", "Q", "R", "S", "T", "U", "V", "W", "X", "Y",
   "Z"}
IsAlnum(c) == c \in WbDigits \cup WbLetters

\* the string has needle at position i
HasAt(s, needle, i) ==
  /\ i >= 1 /\ i + Len(needle) - 1 <= Len(s)
  /\ \A k \in 1..Len(needle) : s[i + k - 1] = needle[k]
\* [a-zA-Z0-9]{4}-[a-zA-Z0-9]{4} matches at position i
SuffixAt(s, i) ==
  /\ i >= 1 /\ i + 8 <= Len(s)
  /\ \A k \in {0, 1, 2, 3, 5, 6, 7, 8} : IsAlnum(s[i + k])
  /\ s[i + 4] = "-"
\* \d+ at position i: the longest run of digits that starts there
RECURSIVE DigitsFrom(_, _)
DigitsFrom(s, i) ==
  IF i <= Len(s) /\ s[i] \in WbDigits THEN <<s[i]>> \o DigitsFrom(s, i + 1) ELSE <<>>

\* the result of a function that raised ValueError
WbValueError == <<"ValueError">>

\* the positions where $ matches: the end of the string and before a final
\* line feed
EndsOf(s) == {Len(s)} \cup (IF Len(s) > 0 /\ s[Len(s)] = LF THEN {Len(s) - 1} ELSE {})
\* the least element of a non-empty set of positions (re.search finds the
\* leftmost match)
Leftmost(S) == CHOOSE i \in S : \A j \in S : i <= j

\* parse_input
ParseInput(input) ==
  LET input_str == RStripSlash(input) IN
  IF Contains(input_str, WbHost) /\ Contains(input_str, WbCatalogDir)
    THEN LET hits == { i \in 1..Len(input_str) :
                         /\ HasAt(input_str, WbCatalogDir, i)
                         /\ DigitsFrom(input_str, i + Len(WbCatalogDir)) # <<>> }
         IN  IF hits # {}
               THEN <<"catalog", DigitsFrom(input_str, Leftmost(hits) + Len(WbCatalogDir))>>
               ELSE <<"error", WbValueError>>
    ELSE IF \E e \in EndsOf(input_str) :
                e >= 1 /\ \A i \in 1..e : input_str[i] \in WbDigits
           THEN <<"catalog", input_str>>
           ELSE <<"doi", input_str>>

\* extract_doi_suffix that hands back an input it cannot make sense of
ExtractDoiSuffixOrInput(input) ==
  LET input_str == RStripSlash(input)
      hits == { i \in 1..Len(input_str) : SuffixAt(input_str, i) }
  IN  IF hits # {} THEN SubSeq(input_str, Leftmost(hits), Leftmost(hits) + 8)
                   ELSE input_str
\* extract_doi_suffix
ExtractDoiSuffix(input) ==
  LET input_str == RStripSlash(input)
      n == Len(input_str)
      ends == { e \in EndsOf(input_str) : e >= 9 /\ SuffixAt(input_str, e - 8) }
      slashEnds == { e \in ends : e >= 10 /\ input_str[e - 9] = "/" }
      prefixHits == { i \in 1..n : /\ HasAt(input_str, WbDoiPrefix, i)
                                   /\ SuffixAt(input_str, i + Len(WbDoiPrefix)) }
  IN  IF 9 \in ends
        THEN input_str
      ELSE IF Contains(input_str, WbDoiOrg)
        THEN IF slashEnds # {}
               THEN SubSeq(input_str, Leftmost(slashEnds) - 8, Leftmost(slashEnds))
               ELSE WbValueError
      ELSE IF Contains(input_str, WbDoiPrefix)
        THEN IF prefixHits # {}
               THEN SubSeq(input_str, Leftmost(prefixHits) + Len(WbDoiPrefix),
                           Leftmost(prefixHits) + Len(WbDoiPrefix) + 8)
               ELSE WbValueError
      ELSE IF ends # {}
        THEN SubSeq(input_str, Leftmost(ends) - 8, Leftmost(ends))
        ELSE WbValueError

\* a directory that does not exist
WbNoDir == {<<"no directory">>}
\* a file is a pair <<name, content>>, a name a pair <<kind, number>>;
\* the files that may be in <output>/wb-<identifier> before the run
WbOldDirs == {WbNoDir, {}, {<<<<"pdf", 1>>, "old">>}}
\* what identify_file_type answers
WbFileTypes == {"pdf", "zip", "unknown"}

WbInit ==
  /\ wb_pc = "parse"
  /\ wb_input \in WbInputs
  /\ wb_dry \in BOOLEAN
  /\ wb_type = "none"
  /\ wb_identifier = <<>>
  /\ wb_dir \in WbOldDirs
  /\ wb_dir0 = wb_dir
  /\ wb_requests = <<>>
  /\ wb_ids = 0
  /\ wb_i = 0
  /\ wb_failed = {}
  /\ wb_extracted = FALSE
  /\ wb_exit = Running

WbExitWith(status) == wb_pc' = "exited" /\ wb_exit' = status

\* main, lines 558-587: the input type and the identifier; ValueError is exit 1
WbParse ==
  /\ wb_pc = "parse"
  /\ LET parsed == ParseInput(wb_input)
         doi_suffix == ExtractDoiSuffix(parsed[2])
     IN  IF parsed[1] = "error"
           THEN WbExitWith(1) /\ UNCHANGED <<wb_type, wb_identifier>>
         ELSE IF parsed[1] = "catalog"
           THEN /\ wb_type' = "catalog"
                /\ wb_identifier' = parsed[2]
                /\ wb_pc' = "output_dir"
                /\ UNCHANGED wb_exit
         ELSE IF doi_suffix = WbValueError
           THEN WbExitWith(1) /\ wb_type' = "doi" /\ UNCHANGED wb_identifier
           ELSE /\ wb_type' = "doi"
                /\ wb_identifier' = doi_suffix
                /\ wb_pc' = "output_dir"
                /\ UNCHANGED wb_exit
  /\ UNCHANGED <<wb_input, wb_dry, wb_dir, wb_dir0, wb_requests, wb_ids, wb_i, wb_failed,
                 wb_extracted>>
  /\ UNCHANGED nonWb

\* main, lines 591-594: a previous download is not overwritten
WbNeverRefuses(dry_run, dir) == FALSE
WbRefuses(dry_run, dir) == ~dry_run /\ dir # WbNoDir

\* main, lines 589-597: the output directory is made, unless it is a dry run
WbOutputDir ==
  /\ wb_pc = "output_dir"
  /\ IF WbRefuses(wb_dry, wb_dir)
       THEN WbExitWith(1) /\ UNCHANGED wb_dir
       ELSE /\ wb_dir' = IF ~wb_dry /\ wb_dir = WbNoDir THEN {} ELSE wb_dir
            /\ wb_pc' = "catalog"
            /\ UNCHANGED wb_exit
  /\ UNCHANGED <<wb_input, wb_dry, wb_type, wb_identifier, wb_dir0, wb_requests, wb_ids,
                 wb_i, wb_failed, wb_extracted>>
  /\ UNCHANGED nonWb

\* main, lines 599-607, get_catalog_info_direct / resolve_catalog_info: the
\* catalog page gives the download IDs (at least one); any failure is exit 1
WbCatalog ==
  /\ wb_pc = "catalog"
  /\ wb_requests' = Append(wb_requests, IF wb_type = "catalog" THEN "catalog" ELSE "doi")
  /\ \E n \in 0..MaxDownloads :
       IF n = 0
         THEN WbExitWith(1) /\ UNCHANGED <<wb_ids, wb_i>>
         ELSE /\ wb_ids' = n
              /\ wb_i' = 1
              /\ wb_pc' = IF wb_dry THEN "dry_run" ELSE "download"
              /\ UNCHANGED wb_exit
  /\ UNCHANGED <<wb_input, wb_dry, wb_type, wb_identifier, wb_dir, wb_dir0, wb_failed,
                 wb_extracted>>
  /\ UNCHANGED nonWb

\* main, lines 617-631: dry run, a HEAD request for every download ID (an
\* exception is printed), then main returns
WbDryRun ==
  /\ wb_pc = "dry_run"
  /\ wb_requests' = wb_requests \o [k \in 1..wb_ids |-> "head"]
  /\ wb_i' = wb_ids + 1
  /\ WbExitWith(0)
  /\ UNCHANGED <<wb_input, wb_dry, wb_type, wb_identifier, wb_dir, wb_dir0, wb_ids,
                 wb_failed, wb_extracted>>
  /\ UNCHANGED nonWb

\* ZipFile.extractall: the members replace files of the same name
WbZipMembers == {<<<<"pdf", 1>>, "member">>, <<<<"do", 1>>, "member">>}
WbWrite(dir, files) ==
  files \cup {f \in dir : \A m \in files : m[1] # f[1]}

\* main, lines 638-682: one download ID: the file type (HEAD), the download
\* (GET) into the output directory, the extraction of a ZIP; a failed download
\* or an exception puts the ID on failed_downloads
WbDownload ==
  /\ wb_pc = "download"
  /\ wb_i <= wb_ids
  /\ \E file_type \in WbFileTypes, got \in {"ok", "failed", "partial"}, unzipped \in BOOLEAN :
       LET name == <<file_type, wb_i>>
           dir1 == IF got = "failed" THEN wb_dir ELSE WbWrite(wb_dir, {<<name, got>>})
           unzip == got = "ok" /\ file_type = "zip" /\ unzipped
       IN  /\ wb_requests' = wb_requests \o <<"head", "get">>
           /\ wb_dir' = IF unzip THEN WbWrite(dir1, WbZipMembers) ELSE dir1
           /\ wb_extracted' = (wb_extracted \/ unzip)
           /\ wb_failed' = IF got = "ok" THEN wb_failed ELSE wb_failed \cup {wb_i}
  /\ wb_i' = wb_i + 1
  /\ UNCHANGED <<wb_pc, wb_input, wb_dry, wb_type, wb_identifier, wb_dir0, wb_ids, wb_exit>>
  /\ UNCHANGED nonWb

\* main, lines 684-708: the summary; failed downloads are exit 1
WbSummary ==
  /\ wb_pc = "download"
  /\ wb_i > wb_ids
  /\ WbExitWith(IF wb_failed # {} THEN 1 ELSE 0)
  /\ UNCHANGED <<wb_input, wb_dry, wb_type, wb_identifier, wb_dir, wb_dir0, wb_requests,
                 wb_ids, wb_i, wb_failed, wb_extracted>>
  /\ UNCHANGED nonWb

WbNext == WbParse \/ WbOutputDir \/ WbCatalog \/ WbDryRun \/ WbDownload \/ WbSummary

\* ---------------------------------------------------------------------
\* Claims about download_worldbank.py

\* C11: when it is not a dry run and <output>/wb-<identifier> exists already,
\* no request is ever sent, the directory stays as it was, and the process
\* exits with status 1 (it never gets past the test of the directory).
C11_RefusesToOverwrite ==
  (~wb_dry /\ wb_dir0 # WbNoDir) =>
     /\ wb_requests = <<>>
     /\ wb_dir = wb_dir0
     /\ wb_pc \in {"parse", "output_dir", "exited"}
     /\ wb_pc = "exited" => wb_exit = 1

\* a run that was refused at the test of the directory, with a valid input
C11_Witness ==
  /\ wb_pc = "exited" /\ wb_exit = 1
  /\ ~wb_dry /\ wb_dir0 = {<<<<"pdf", 1>>, "old">>}
  /\ wb_identifier = WbSuffix

\* the input without its trailing slashes
WbGiven == RStripSlash(wb_input)
\* <suffix>: 4 alphanumerics, '-', 4 alphanumerics
IsSuffixPattern(s) == Len(s) = 9 /\ SuffixAt(s, 1)
AllDigits(s) == s # <<>> /\ \A i \in 1..Len(s) : s[i] \in WbDigits
\* the numbers that follow /catalog/ in a catalog URL
WbCatalogNumbers(s) ==
  IF Contains(s, WbHost)
    THEN { DigitsFrom(s, i + Len(WbCatalogDir)) :
             i \in { j \in 1..Len(s) : HasAt(s, WbCatalogDir, j) } } \ {<<>>}
    ELSE {}
\* the suffix of an input of one of the three documented DOI forms
WbDoiSuffixes(s) ==
  { x \in {s} \cup { SubSeq(s, Len(pre) + 1, Len(s)) :
                       pre \in { p \in {WbDoiUrl \o WbDoiPrefix, WbDoiPrefix} :
                                   HasAt(s, p, 1) } } :
      IsSuffixPattern(x) }
\* the input was turned down: exit 1, no identifier, no directory made, no request
WbRejected ==
  /\ wb_pc = "exited" /\ wb_exit = 1 /\ wb_identifier = <<>>
  /\ wb_dir = wb_dir0 /\ wb_requests = <<>>
\* the classification of the five documented input forms
WbDocumentedForms ==
  /\ (WbCatalogNumbers(WbGiven) # {} \/ AllDigits(WbGiven)) =>
        /\ wb_type = "catalog"
        /\ wb_identifier \in WbCatalogNumbers(WbGiven) \cup {WbGiven}
        /\ AllDigits(wb_identifier)
  /\ (WbCatalogNumbers(WbGiven) = {} /\ ~AllDigits(WbGiven) /\ WbDoiSuffixes(WbGiven) # {}) =>
        /\ wb_type = "doi"
        /\ wb_identifier \in WbDoiSuffixes(WbGiven)
WbOtherInput ==
  WbCatalogNumbers(WbGiven) = {} /\ ~AllDigits(WbGiven) /\ WbDoiSuffixes(WbGiven) = {}

\* C12 (as stated): the five documented forms are classified as catalog or DOI
\* input with the catalog number or the suffix as identifier, trailing
\* slashes are ignored, and any other input is turned down with status 1
\* before the output directory is made or a request is sent.
C12_FiveInputForms ==
  wb_pc # "parse" =>
    /\ WbDocumentedForms
    /\ WbOtherInput => WbRejected

\* s without a final line feed
WbChomp(s) == IF s # <<>> /\ s[Len(s)] = LF THEN SubSeq(s, 1, Len(s) - 1) ELSE s

\* C12 (amended): the five documented forms are classified as stated; any
\* other input is either turned down (exit 1 before the directory is made or
\* a request is sent), or taken as DOI input with a <suffix> pattern found
\* in it as identifier, or - digits and a final line feed - as catalog input;
\* an input without any <suffix> pattern that is not digits is turned down.
C12_FiveInputFormsAndLenientRest ==
  wb_pc # "parse" =>
    /\ WbDocumentedForms
    /\ WbOtherInput =>
         \/ WbRejected
         \/ /\ wb_type = "doi"
            /\ IsSuffixPattern(WbChomp(wb_identifier))
            /\ Contains(WbGiven, wb_identifier)
         \/ /\ wb_type = "catalog"
            /\ AllDigits(WbChomp(WbGiven))
            /\ wb_identifier = WbGiven
    /\ (WbOtherInput /\ ~AllDigits(WbChomp(WbGiven))
          /\ \A i \in 1..Len(WbGiven) : ~SuffixAt(WbGiven, i)) => WbRejected

\* a DOI with a trailing slash was classified and the run went on to the catalog
C12_Witness ==
  /\ wb_input = WbDoiPrefix \o WbSuffix \o <<"/">>
  /\ wb_type = "doi" /\ wb_identifier = WbSuffix
  /\ wb_requests # <<>>

\* =====================================================================
\* --dry-run of download_zenodo_draft.py and download_worldbank.py
\* =====================================================================

ZNoManifest == [md5 |-> NoFile, sha256 |-> NoFile]
\* a GET of a file of the catalog
WbDownloaded == \E k \in 1..Len(wb_requests) : wb_requests[k] = "get"

\* C13: with --dry-run both scripts leave the disk alone: the output
\* directory is not created, no file of the deposit or catalog is requested
\* or written, no manifest is written, no archive is extracted, no git command
\* is run, and once the files were listed the process ends with status 0.
C13_DryRunLeavesDiskAlone ==
  /\ [](z_dry => /\ z_local = z_local0
                 /\ z_requested = {}
                 /\ z_manifest = ZNoManifest
                 /\ ~z_git
                 /\ z_pc \in {"start", "fetch", "exited"}
                 /\ (z_pc = "exited" /\ z_meta # <<>>) => z_exit = 0)
  /\ [][z_dry => z_outdir' = z_outdir]_vars
  /\ [](wb_dry => /\ wb_dir = wb_dir0
                  /\ ~wb_extracted
                  /\ ~WbDownloaded
                  /\ wb_failed = {}
                  /\ (wb_pc = "exited" /\ wb_ids > 0) => wb_exit = 0)

\* a dry run of download_zenodo_draft listed a deposit and ended; there is no
\* output directory
C13_Witness ==
  /\ z_dry /\ z_pc = "exited" /\ z_exit = 0
  /\ Len(z_meta) = MaxFiles
  /\ ~z_outdir
\* a dry run of download_worldbank listed a catalog and ended
C13_WitnessWorldbank ==
  /\ wb_dry /\ wb_pc = "exited" /\ wb_exit = 0
  /\ wb_ids = MaxDownloads /\ wb_dir0 = WbNoDir /\ wb_dir = WbNoDir

\* =====================================================================
\* download_box_private.py
\* =====================================================================

\* the sizes Box may report for a file, and the names in the two folders
BpSizes == {0, 1}
\* os.path.exists is False
BpNoFile == -1
BpRootNames == {"a", "b"}
BpSubNames == {"c"}
BpFileItem(n, s) == [type |-> "file", name |-> n, size |-> s, items |-> <<>>]
BpFolderItem(its) == [type |-> "folder", name |-> "sub", size |-> 0, items |-> its]
\* the sequences without repetition of the elements of S
RECURSIVE BpOrders(_)
BpOrders(S) ==
  IF S = {} THEN {<<>>}
  ELSE UNION { { <<x>> \o rest : rest \in BpOrders(S \ {x}) } : x \in S }
\* the listings of a folder with files of some of the names
BpListings(names) ==
  UNION { { [k \in 1..Len(o) |-> BpFileItem(o[k], sz[o[k]])] : o \in BpOrders(N) } :
            <<N, sz>> \in (SUBSET names) \X [names -> BpSizes] }
\* the root folder: files and at most one subfolder, in any order
BpInsertAt(seq, x, k) == SubSeq(seq, 1, k) \o <<x>> \o SubSeq(seq, k + 1, Len(seq))
BpRemotes ==
  BpListings(BpRootNames) \cup
  UNION { { BpInsertAt(r, BpFolderItem(sub), k) : k \in 0..Len(r) } :
            <<r, sub>> \in BpListings(BpRootNames) \X BpListings(BpSubNames) }
\* target paths: <<directory, name>>
BpPaths == ({"root"} \X BpRootNames) \cup ({"sub"} \X BpSubNames)
\* the files Box holds, as <<path, size>>
RECURSIVE BpFilesOf(_, _)
BpFilesOf(dir, items) ==
  UNION { IF items[k].type = "file"
            THEN {<<<<dir, items[k].name>>, items[k].size>>}
            ELSE BpFilesOf(items[k].name, items[k].items) : k \in 1..Len(items) }

BpInit ==
  /\ bp_pc = "start"
  /\ bp_remote \in BpRemotes
  /\ bp_stack = <<>>
  /\ bp_local \in [BpPaths -> BpSizes \cup {BpNoFile}]
  /\ bp_local0 = bp_local
  /\ bp_opened = {}
  /\ bp_downloaded = {}
  /\ bp_skipped = {}
  /\ bp_output_files = <<>>
  /\ bp_total = 0
  /\ bp_error = FALSE
  /\ bp_exit = Running

BpFrame(dir, items) == [dir |-> dir, items |-> items, i |-> 1]
BpTop == bp_stack[Len(bp_stack)]
BpPop == SubSeq(bp_stack, 1, Len(bp_stack) - 1)
\* the loop of the call on top moves to its next item
BpAdvance == [bp_stack EXCEPT ![Len(bp_stack)].i = @ + 1]

\* main, line 420, and download_folder, lines 322-336: the first call; an
\* exception of folder.get() or get_items() is logged and the call returns
BpStart ==
  /\ bp_pc = "start"
  /\ \E ok \in BOOLEAN :
       /\ bp_stack' = IF ok THEN <<BpFrame("root", bp_remote)>> ELSE <<>>
       /\ bp_error' = ~ok
  /\ bp_pc' = "folder"
  /\ UNCHANGED <<bp_remote, bp_local, bp_local0, bp_opened, bp_downloaded, bp_skipped,
                 bp_output_files, bp_total, bp_exit>>
  /\ UNCHANGED nonBp

\* the file is kept whenever something exists at its path, whatever its size
BpExists(local, path, size) == local[path] # BpNoFile
\* line 351: os.path.exists(file_path) and os.path.getsize(file_path) == item.size
BpSameSize(local, path, size) == local[path] # BpNoFile /\ local[path] = size

\* download_folder, lines 343-365: a file item is skipped (and counted) when a
\* local file of the same size exists; else it is opened for writing and
\* downloaded.  An exception of open() or of download_to() ends the loop of this
\* call (lines 367-370); download_to may have written part of the file by then
BpFile ==
  /\ bp_pc = "folder" /\ bp_stack # <<>>
  /\ BpTop.i <= Len(BpTop.items)
  /\ LET item == BpTop.items[BpTop.i]
         path == <<BpTop.dir, item.name>>
         counted == /\ bp_output_files' = Append(bp_output_files, path)
                    /\ bp_total' = bp_total + item.size
     IN
     /\ item.type = "file"
     /\ IF BpSameSize(bp_local, path, item.size)
          THEN /\ bp_skipped' = bp_skipped \cup {path}
               /\ IF \E k \in 1..Len(bp_output_files) : bp_output_files[k] = path
                    THEN UNCHANGED <<bp_output_files, bp_total>>
                    ELSE counted
               /\ bp_stack' = BpAdvance
               /\ UNCHANGED <<bp_local, bp_opened, bp_downloaded, bp_error>>
          ELSE \E outcome \in {"ok", "open_error", "download_error"} :
                 CASE outcome = "ok" ->
                        /\ bp_opened' = bp_opened \cup {path}
                        /\ bp_local' = [bp_local EXCEPT ![path] = item.size]
                        /\ bp_downloaded' = bp_downloaded \cup {path}
                        /\ counted
                        /\ bp_stack' = BpAdvance
                        /\ UNCHANGED <<bp_skipped, bp_error>>
                   [] outcome = "open_error" ->
                        /\ bp_stack' = BpPop
                        /\ bp_error' = TRUE
                        /\ UNCHANGED <<bp_local, bp_opened, bp_downloaded, bp_skipped,
                                       bp_output_files, bp_total>>
                   [] OTHER ->
                        /\ bp_opened' = bp_opened \cup {path}
                        /\ \E written \in 0..item.size :
                             bp_local' = [bp_local EXCEPT ![path] = written]
                        /\ bp_stack' = BpPop
                        /\ bp_error' = TRUE
                        /\ UNCHANGED <<bp_downloaded, bp_skipped, bp_output_files, bp_total>>
  /\ UNCHANGED <<bp_pc, bp_remote, bp_local0, bp_exit>>
  /\ UNCHANGED nonBp

\* download_folder, lines 340-342 and 322-336: a folder item is a recursive
\* call; an exception of folder.get() or get_items() in that call is logged
\* there and the loop of the caller goes on
BpFolder ==
  /\ bp_pc = "folder" /\ bp_stack # <<>>
  /\ BpTop.i <= Len(BpTop.items)
  /\ LET item == BpTop.items[BpTop.i] IN
     /\ item.type = "folder"
     /\ \E ok \in BOOLEAN :
          /\ bp_stack' = IF ok THEN Append(BpAdvance, BpFrame(item.name, item.items))
                               ELSE BpAdvance
          /\ bp_error' = (bp_error \/ ~ok)
  /\ UNCHANGED <<bp_pc, bp_remote, bp_local, bp_local0, bp_opened, bp_downloaded,
                 bp_skipped, bp_output_files, bp_total, bp_exit>>
  /\ UNCHANGED nonBp

\* download_folder: the loop of a call is over and the call returns
BpReturn ==
  /\ bp_pc = "folder" /\ bp_stack # <<>>
  /\ BpTop.i > Len(BpTop.items)
  /\ bp_stack' = BpPop
  /\ UNCHANGED <<bp_pc, bp_remote, bp_local, bp_local0, bp_opened, bp_downloaded,
                 bp_skipped, bp_output_files, bp_total, bp_error, bp_exit>>
  /\ UNCHANGED nonBp

\* main, lines 421-425: the summary is printed and the script ends
BpSummary ==
  /\ bp_pc = "folder" /\ bp_stack = <<>>
  /\ bp_pc' = "exited"
  /\ bp_exit' = 0
  /\ UNCHANGED <<bp_remote, bp_stack, bp_local, bp_local0, bp_opened, bp_downloaded,
                 bp_skipped, bp_output_files, bp_total, bp_error>>
  /\ UNCHANGED nonBp

BpNext == BpStart \/ BpFile \/ BpFolder \/ BpReturn \/ BpSummary

\* ---------------------------------------------------------------------
\* Claims about download_box_private.py

BpRemoteFiles == BpFilesOf("root", bp_remote)
BpCounted == { bp_output_files[k] : k \in 1..Len(bp_output_files) }
\* a local file of the size Box reports was there when the script started
BpHadSameSize(f) == bp_local0[f[1]] = f[2]
\* a file with the same size is left alone and counted once the loop has passed it
BpKeepsSameSize ==
  \A f \in BpRemoteFiles :
     BpHadSameSize(f) =>
        /\ f[1] \notin bp_opened
        /\ bp_local[f[1]] = bp_local0[f[1]]
        /\ f[1] \in bp_skipped => f[1] \in BpCounted

ZIdle ==
  /\ z_pc = "idle" /\ z_dry = FALSE /\ z_sel = "idle" /\ z_outdir = FALSE
  /\ z_local = "idle" /\ z_local0 = "idle" /\ z_meta = <<>> /\ z_next = 0
  /\ z_requested = {} /\ z_failed = <<>> /\ z_skipped = <<>> /\ z_manifest = "idle"
  /\ z_git = FALSE /\ z_exit = 0
SpIdle ==
  /\ sp_script = "idle" /\ sp_ci = FALSE /\ sp_pc = "idle" /\ sp_left = 0
  /\ sp_written = 0 /\ sp_threads = <<>> /\ sp_main = "idle" /\ sp_exited = FALSE

SvIdle ==
  /\ sv_pc = "idle" /\ sv_folder = {} /\ sv_pre = {} /\ sv_zip = {}
  /\ sv_git = <<>> /\ sv_done = {} /\ sv_cli = 0 /\ sv_exit = 0

DvIdle ==
  /\ dv_pc = "idle" /\ dv_existed = FALSE /\ dv_isdir = FALSE /\ dv_files = {}
  /\ dv_members = {} /\ dv_unzip = FALSE /\ dv_downloaded = FALSE
  /\ dv_extracted = FALSE /\ dv_git = FALSE /\ dv_exit = 0

BxIdle ==
  /\ bx_tree = "idle" /\ bx_stack = <<>> /\ bx_call = "none" /\ bx_out = <<>>
  /\ bx_error = FALSE /\ bx_done = FALSE

CmIdle ==
  /\ cm_pc = "idle" /\ cm_m1 = <<>> /\ cm_m2 = <<>> /\ cm_summary = "idle"

PrIdle ==
  /\ pr_pc = "idle" /\ pr_ci = FALSE /\ pr_given = <<>> /\ pr_pid = <<>>
  /\ pr_savepath = "." /\ pr_password = "" /\ pr_requests = <<>> /\ pr_zip = "idle"
  /\ pr_fs = "idle" /\ pr_fs0 = "idle" /\ pr_extracted = FALSE /\ pr_git = <<>>
  /\ pr_exit = 0

PbIdle ==
  /\ pb_pc = "idle" /\ pb_pid = <<>> /\ pb_version = <<>> /\ pb_login = <<>>
  /\ pb_password = <<>> /\ pb_requests = <<>> /\ pb_resp = "idle" /\ pb_left = 0
  /\ pb_file = "idle" /\ pb_exit = 0

WbIdle ==
  /\ wb_pc = "idle" /\ wb_input = <<>> /\ wb_dry = FALSE /\ wb_type = "idle"
  /\ wb_identifier = <<>> /\ wb_dir = {} /\ wb_dir0 = {} /\ wb_requests = <<>>
  /\ wb_ids = 0 /\ wb_i = 0 /\ wb_failed = {} /\ wb_extracted = FALSE /\ wb_exit = 0

BpIdle ==
  /\ bp_pc = "idle" /\ bp_remote = <<>> /\ bp_stack = <<>> /\ bp_local = <<>>
  /\ bp_local0 = <<>> /\ bp_opened = {} /\ bp_downloaded = {} /\ bp_skipped = {}
  /\ bp_output_files = <<>> /\ bp_total = 0 /\ bp_error = FALSE /\ bp_exit = 0

InitZenodo == ZInit /\ SpIdle /\ SvIdle /\ DvIdle /\ BxIdle /\ CmIdle /\ PrIdle /\ PbIdle /\ WbIdle /\ BpIdle
SpecZenodo == InitZenodo /\ [][ZNext]_vars

InitSpinner == SpInit /\ ZIdle /\ SvIdle /\ DvIdle /\ BxIdle /\ CmIdle /\ PrIdle /\ PbIdle /\ WbIdle /\ BpIdle
SpecSpinner == InitSpinner /\ [][SpNext]_vars

InitSivacor == SvInit /\ ZIdle /\ SpIdle /\ DvIdle /\ BxIdle /\ CmIdle /\ PrIdle /\ PbIdle /\ WbIdle /\ BpIdle
SpecSivacor == InitSivacor /\ [][SvNext]_vars

InitDataverse == DvInit /\ ZIdle /\ SpIdle /\ SvIdle /\ BxIdle /\ CmIdle /\ PrIdle /\ PbIdle /\ WbIdle /\ BpIdle
SpecDataverse == InitDataverse /\ [][DvNext]_vars

InitBoxList == BxInit /\ ZIdle /\ SpIdle /\ SvIdle /\ DvIdle /\ CmIdle /\ PrIdle /\ PbIdle /\ WbIdle /\ BpIdle
SpecBoxList == InitBoxList /\ [][BxNext]_vars

InitManifests == CmInit /\ ZIdle /\ SpIdle /\ SvIdle /\ DvIdle /\ BxIdle /\ PrIdle /\ PbIdle /\ WbIdle /\ BpIdle
SpecManifests == InitManifests /\ [][CmNext]_vars

InitPrivate == PrInit /\ ZIdle /\ SpIdle /\ SvIdle /\ DvIdle /\ BxIdle /\ CmIdle /\ PbIdle /\ WbIdle /\ BpIdle
SpecPrivate == InitPrivate /\ [][PrNext]_vars

InitPublic == PbInit /\ ZIdle /\ SpIdle /\ SvIdle /\ DvIdle /\ BxIdle /\ CmIdle /\ PrIdle /\ WbIdle /\ BpIdle
SpecPublic == InitPublic /\ [][PbNext]_vars

InitWorldbank == WbInit /\ ZIdle /\ SpIdle /\ SvIdle /\ DvIdle /\ BxIdle /\ CmIdle /\ PrIdle /\ PbIdle /\ BpIdle
SpecWorldbank == InitWorldbank /\ [][WbNext]_vars

\* the two scripts that have --dry-run: a run of the one or of the other
InitDryRun ==
  \/ ZInit /\ SpIdle /\ SvIdle /\ DvIdle /\ BxIdle /\ CmIdle /\ PrIdle /\ PbIdle /\ WbIdle /\ BpIdle
  \/ WbInit /\ ZIdle /\ SpIdle /\ SvIdle /\ DvIdle /\ BxIdle /\ CmIdle /\ PrIdle /\ PbIdle /\ BpIdle
DryRunNext == ZNext \/ WbNext
SpecDryRun == InitDryRun /\ [][DryRunNext]_vars

InitBoxPrivate == BpInit /\ ZIdle /\ SpIdle /\ SvIdle /\ DvIdle /\ BxIdle /\ CmIdle /\ PrIdle /\ PbIdle /\ WbIdle
SpecBoxPrivate == InitBoxPrivate /\ [][BpNext]_vars

====
